---- MODULE Spec2Model ----
(***************************************************************************)
(* A model of OPA's top-down evaluator (v1/topdown/eval.go).               *)
(*                                                                         *)
(* The evaluator is written in continuation-passing style: every handler   *)
(* takes an iterator `iter` and calls it once per solution; backtracking   *)
(* is the return of the call.  The model is the Go call stack made         *)
(* explicit: `stack` holds one activation per running Go function or       *)
(* closure, `frames` holds the *eval structs (the pool), and an iterator   *)
(* is a closure value [k, env] naming its code and the activation whose    *)
(* locals it captured.                                                     *)
(***************************************************************************)
EXTENDS Integers, Sequences, FiniteSets, TLC

(* ---------------------------------------------------------------------- *)
(* Bounds                                                                  *)
(* ---------------------------------------------------------------------- *)
\* numbers used as rule values, call arguments and `with` replacements
MaxVal == 2
\* the longest rule ref below a partial rule set's root
MaxPath == 3

(* ---------------------------------------------------------------------- *)
(* Terms and errors                                                        *)
(* ---------------------------------------------------------------------- *)
\* a nil *ast.Term
NoTerm == [k |-> "nil", n |-> 0]
Bool(b) == [k |-> "bool", n |-> IF b THEN 1 ELSE 0]
Num(n) == [k |-> "num", n |-> n]
Nums == {Num(n) : n \in 1..MaxVal}
\* null, the empty string and the empty collections
Null == [k |-> "null", n |-> 0]
EmptyString == [k |-> "string", n |-> 0]
EmptyArray == [k |-> "array", n |-> 0]
EmptyObject == [k |-> "object", n |-> 0]
EmptySet == [k |-> "set", n |-> 0]
NotFalse == {Null, Num(0), EmptyString, EmptyArray, EmptyObject, EmptySet}
\* the values rule heads take
Vals == Nums \cup {Bool(FALSE)}

\* a Go error: <<>> is nil, otherwise the chain of wrappers, outermost first
\* ("E" earlyExitError, "D" deferredEarlyExitError, then the root error)
NoErr == <<>>
IsEarlyExit(err) == err # <<>> /\ err[1] = "E"
IsDeferredEarlyExit(err) == err # <<>> /\ err[1] = "D"

\* eval.go suppressEarlyExit: an early exit error is replaced by its prev
suppressEarlyExit(err) ==
  IF IsEarlyExit(err) \/ IsDeferredEarlyExit(err) THEN Tail(err) ELSE err

(* ---------------------------------------------------------------------- *)
(* Expressions                                                             *)
(* ---------------------------------------------------------------------- *)
Expr(k, v) ==
  [k |-> k, v |-> v, rule |-> "", arg |-> NoTerm, out |-> NoTerm,
   dom |-> <<>>, domk |-> "array", body |-> <<>>, neg |-> FALSE,
   with |-> <<>>]
Lit(v) == Expr("lit", v)
\* a bare reference to the complete rule data.t.<r>
Ref(r) == [Expr("ref", NoTerm) EXCEPT !.rule = r]
\* an output variable no expression has bound
FreshVar == [k |-> "var", n |-> 0]
\* the calls data.t.<f>(arg) and data.t.<f>(arg, out)
Call(f, arg) == [Expr("call", NoTerm) EXCEPT !.rule = f, !.arg = arg]
CallOut(f, arg, out) == [Call(f, arg) EXCEPT !.out = out]
\* the equality x = input, x a fresh variable
InputEq == Expr("inp", NoTerm)
\* the equality input = v and the built-in call input > v
InputIs(v) == Expr("ieq", v)
\* a call of a built-in, named by what its implementation does: "value"
\* hands the iterator a value other than false, "false" hands it false,
\* "error" returns an error, "halt" returns a Halt error
Builtin(does) == [Expr("builtin", NoTerm) EXCEPT !.rule = does]
InputGt(v) == Expr("icall", v)
\* a reference to the support rule set a negation left behind
Support(path) == [Expr("support", NoTerm) EXCEPT !.dom = path]
\* x = dom[_] over the array dom, x the frame's variable
Gen(dom) == [Expr("gen", NoTerm) EXCEPT !.dom = dom]
\* the bare term x
BareVar == Expr("var", NoTerm)
\* every x in dom { body }, dom plugged to a value of kind domk
Every(domk, dom, body) ==
  [Expr("every", NoTerm) EXCEPT !.domk = domk, !.dom = dom, !.body = body]
Not(x) == [x EXCEPT !.neg = TRUE]
\* the modifiers `with input as v`, `with data.t.<n> as v` (n a rule) and
\* `with data.t.<f> as v` (f a function)
WithInput(v) == [target |-> "input", name |-> "", value |-> v]
WithData(n, v) == [target |-> "data", name |-> n, value |-> v]
WithFunc(f, v) == [target |-> "func", name |-> f, value |-> v]
With(x, w) == [x EXCEPT !.with = <<w>>]
\* ast.Expr.ComplementNoWith: the expression without negation and modifiers
ComplementNoWith(x) == [x EXCEPT !.neg = ~x.neg, !.with = <<>>]

(* ---------------------------------------------------------------------- *)
(* The policy under evaluation                                             *)
(* ---------------------------------------------------------------------- *)
\* head values: a ground constant, a variable the body binds to v, the
\* input document, or the function's parameter
Const(v) == [k |-> "const", v |-> v]
Var(v) == [k |-> "var", v |-> v]
\* a rule with head value `head`; args is the head's parameter, NoTerm when
\* it is a variable (or the rule is no function)
Rule(head, body) == [head |-> head, body |-> body, args |-> NoTerm]
NoRule == Rule(Const(NoTerm), <<>>)

\* package t, with a and b the two numbers the query's policy is built from:
\*   p := x if { x := a }          p := y if { y := b; not q }
\*   q if { false }
\*   c := a                        c := b
\*   t := true
\*   r := x if { x := input }
\*   m := x if { x := [a, b][_] }
\*   default d := a                d := b if { q }
\*   e := a if { q } else := b
\*   f(x) := y if { y := x + input }
\*   g(x) := y if { y := a }       g(x) := y if { y := b }
\*   default h(x) := a             h(1) := b
\*   k(x) := a if { q } else := b
\*   s := true if { _ = [a, b][_] }
\*   w := a if { halt() }          (a built-in that halts the evaluation)
\*   default u := a                u := b if { q } else := b if { t }
\*   default y := a                y := b if { q } else := b if { q }
\* (a head variable is bound by the last expression of the body)
Rules(a, b) ==
  [f |-> <<Rule([k |-> "sum", v |-> NoTerm], <<InputEq>>)>>,
   g |-> <<Rule(Var(a), <<>>), Rule(Var(b), <<>>)>>,
   h |-> <<[Rule(Const(b), <<>>) EXCEPT !.args = Num(1)]>>,
   k |-> <<Rule(Const(a), <<Ref("q")>>)>>,
   p |-> <<Rule(Var(a), <<>>), Rule(Var(b), <<Not(Ref("q"))>>)>>,
   q |-> <<Rule(Const(Bool(TRUE)), <<Lit(Bool(FALSE))>>)>>,
   c |-> <<Rule(Const(a), <<>>), Rule(Const(b), <<>>)>>,
   t |-> <<Rule(Const(Bool(TRUE)), <<>>)>>,
   r |-> <<Rule([k |-> "input", v |-> NoTerm], <<InputEq>>)>>,
   m |-> <<Rule([k |-> "x", v |-> NoTerm], <<Gen(<<a, b>>)>>)>>,
   d |-> <<Rule(Const(b), <<Ref("q")>>)>>,
   e |-> <<Rule(Const(a), <<Ref("q")>>)>>,
   s |-> <<Rule(Const(Bool(TRUE)), <<Gen(<<a, b>>)>>)>>,
   w |-> <<Rule(Const(a), <<Builtin("halt")>>)>>,
   u |-> <<Rule(Const(b), <<Ref("q")>>)>>,
   y |-> <<Rule(Const(b), <<Ref("q")>>)>>]
Else(a, b) ==
  [f |-> <<<<>>>>, g |-> <<<<>>, <<>>>>, h |-> <<<<>>>>,
   k |-> <<<<Rule(Const(b), <<>>)>>>>,
   p |-> <<<<>>, <<>>>>, q |-> <<<<>>>>, c |-> <<<<>>, <<>>>>, t |-> <<<<>>>>,
   r |-> <<<<>>>>, m |-> <<<<>>>>, d |-> <<<<>>>>, e |-> <<<<Rule(Const(b), <<>>)>>>>,
   s |-> <<<<>>>>, w |-> <<<<>>>>,
   u |-> <<<<Rule(Const(b), <<Ref("t")>>)>>>>,
   y |-> <<<<Rule(Const(b), <<Ref("q")>>)>>>>]
Default(a, b) ==
  [f |-> NoRule, g |-> NoRule, h |-> Rule(Const(a), <<>>), k |-> NoRule,
   p |-> NoRule, q |-> NoRule, c |-> NoRule, t |-> NoRule, r |-> NoRule,
   m |-> NoRule,
   d |-> Rule(Const(a), <<>>), e |-> NoRule, s |-> NoRule, w |-> NoRule,
   u |-> Rule(Const(a), <<>>), y |-> Rule(Const(a), <<>>)]

RuleNames == {"p", "q", "c", "t", "r", "m", "d", "e"}
FuncNames == {"f", "g", "h", "k"}

\* the rule index's early-exit hint: every rule of the set, its else rules
\* and its default carry the same ground head value
AllRules(a, b, n) ==
  {Rules(a, b)[n][i] : i \in 1..Len(Rules(a, b)[n])}
  \cup UNION {{Else(a, b)[n][i][j] : j \in 1..Len(Else(a, b)[n][i])} :
                i \in 1..Len(Else(a, b)[n])}
  \cup (IF Default(a, b)[n] = NoRule THEN {} ELSE {Default(a, b)[n]})
IndexEarlyExit(a, b, n) ==
  \A x, y \in AllRules(a, b, n) : x.head.k = "const" /\ x.head = y.head

\* getRules: the index result for data.t.<n>, its hint kept only when the
\* evaluator's earlyExit flag is on
getRules(a, b, n, earlyExit) ==
  [Rules |-> Rules(a, b)[n], Else |-> Else(a, b)[n],
   Default |-> Default(a, b)[n],
   EarlyExit |-> IndexEarlyExit(a, b, n) /\ earlyExit]

(* ---------------------------------------------------------------------- *)
(* Partial rule sets: evalVirtualPartial.reduce                            *)
(* ---------------------------------------------------------------------- *)
\* A term below a partial rule set is the set of its leaves, each the path of
\* keys to a number: a number is one leaf with the empty path, an object has
\* only longer paths, and no term (nil) has no leaf.
Nil == {}
Scalar(n) == {[path |-> <<>>, val |-> n]}
Object1(k, n) == {[path |-> <<k>>, val |-> n]}
IsObject(t) == \A l \in t : l.path # <<>>
\* ast.Object.Get and Insert
Get(obj, k) ==
  {[path |-> Tail(l.path), val |-> l.val] :
     l \in {x \in obj : x.path # <<>> /\ x.path[1] = k}}
Insert(obj, k, t) ==
  {x \in obj : x.path = <<>> \/ x.path[1] # k}
  \cup {[path |-> <<k>> \o l.path, val |-> l.val] : l \in t}
\* the object found at path `at` of obj, and obj with that object replaced
RECURSIVE Sub(_, _)
Sub(obj, at) == IF at = <<>> THEN obj ELSE Sub(Get(obj, at[1]), Tail(at))
RECURSIVE Replace(_, _, _)
Replace(obj, at, t) ==
  IF at = <<>> THEN t
  ELSE Insert(obj, at[1], Replace(Get(obj, at[1]), Tail(at), t))

\* ast.Ref.HasPrefix
HasPrefix(ref, c) == Len(c) <= Len(ref) /\ SubSeq(ref, 1, Len(c)) = c

\* getNestedObject: walk ref from the object at `at`, making the objects that
\* are missing; current is where the walk ended
RECURSIVE getNestedObject(_, _, _)
getNestedObject(ref, rootObj, at) ==
  IF ref = <<>> THEN [err |-> FALSE, current |-> at]
  ELSE LET c == Get(Sub(rootObj, at), ref[1]) IN
       IF c # Nil /\ ~IsObject(c) THEN [err |-> TRUE, current |-> at]
       ELSE getNestedObject(Tail(ref), rootObj, Append(at, ref[1]))

\* hasCollisions: a visited ref is a strict prefix of path
hasCollisions(path, visitedRefs) ==
  \E i \in 1..Len(visitedRefs) :
     HasPrefix(path, visitedRefs[i]) /\ path # visitedRefs[i]

\* a faulty variant: the value already at the leaf is taken for a duplicate
leafNoConflict(curr, val) == FALSE
\* reduce: `!curr.Equal(val)`
leafConflict(curr, val) == curr # val

\* reduce for a single-value rule whose plugged ref below the rule set's root
\* is rule.path and whose plugged head value is rule.val
reduce(rule, result, visitedRefs) ==
  IF hasCollisions(rule.path, visitedRefs)
  THEN [result |-> Nil, exists |-> FALSE, err |-> TRUE,
        visitedRefs |-> visitedRefs]
  ELSE LET visited == Append(visitedRefs, rule.path)
           objPath == SubSeq(rule.path, 1, Len(rule.path) - 1)
           leafKey == rule.path[Len(rule.path)]
           leafObj == getNestedObject(objPath, result, <<>>)
           curr == Get(Sub(result, objPath), leafKey)
       IN IF leafObj.err
          THEN [result |-> Nil, exists |-> FALSE, err |-> TRUE,
                visitedRefs |-> visited]
          ELSE IF curr # Nil
          THEN IF leafConflict(curr, rule.val)
               THEN [result |-> Nil, exists |-> FALSE, err |-> TRUE,
                     visitedRefs |-> visited]
               ELSE [result |-> result, exists |-> TRUE, err |-> FALSE,
                     visitedRefs |-> visited]
          ELSE [result |-> Replace(result, leafObj.current,
                                   Insert(Sub(result, leafObj.current),
                                          leafKey, rule.val)),
                exists |-> FALSE, err |-> FALSE, visitedRefs |-> visited]

\* the rule solutions reduced: refs over two keys, numbers and one-key objects
Keys == {"q", "r"}
Paths == UNION {[1..n -> Keys] : n \in 1..MaxPath}
Values ==
  {Scalar(n) : n \in 1..MaxVal} \cup {Object1(k, n) : k \in Keys, n \in 1..MaxVal}
Solutions == [path : Paths, val : Values]
NoReduce ==
  [rules |-> <<>>, i |-> 1, result |-> Nil, visitedRefs |-> <<>>,
   err |-> FALSE, exists |-> <<>>]

(* ---------------------------------------------------------------------- *)
(* State                                                                   *)
(* ---------------------------------------------------------------------- *)
VARIABLES
  prog,        \* the query under evaluation and the policy's parameters
  frames,      \* the live *eval structs, in allocation order
  stack,       \* the Go call stack
  ret,         \* the error the last returned call produced
  retTerm,     \* the term the last returned call produced, if it has one
  queryIDFact, \* the query id factory's counter
  virtualCache,\* the virtual cache: a stack of scopes, each key -> term
  hits,        \* instrumentation counter evalOpVirtualCacheHit
  misses,      \* instrumentation counter evalOpVirtualCacheMiss
  vlog,        \* history: what each evaluation did with the virtual cache
  comprehensionCache, \* the comprehension cache's scopes
  targetStack,        \* the stack of `with` targets
  inliningControl,    \* the stack of inlining-disable lists
  functionMocks,      \* the stack of function mocks
  saveStack,          \* partial evaluation: the stack of saved queries
  saveSupport,        \* partial evaluation: the support rules
  partials,           \* partial evaluation: the residual queries produced
  results,     \* number of times the top-level iterator ran
  red,         \* evalVirtualPartial.evalAllRulesNoCache: its loop's locals
  uni,         \* a biunify call on its own: bindings, call stack, history
  stp,       \* evalStep on its own, with and without tracing
  cpr,       \* an object comprehension on its own: the body's solutions, the object
  mrg,       \* merge on its own: the operands and the result
  prd,       \* the inlining of a negation's residual queries on its own
  enm,       \* one call of evalTree.enumerate or evalTerm.enumerate
  cch,       \* array and set comprehensions evaluated through the comprehension cache
  ndb,       \* evalBuiltin.eval of a non-deterministic built-in with an ND cache
  rsv,       \* evalResolver.Resolve on its own: the documents, the base cache, the calls made
  ord,       \* a reference to, or a call of, a rule set under partial evaluation
  vks,       \* reads of a partial object through the virtual cache
  els,       \* the else chains of one rule set (evalValue)
  pol,       \* the pools of frames and of resolvers (evalPool, resolverPool)
  qid,       \* the query id factory and the frames it numbered
  bod,       \* a body of array references, evaluated left to right (evalExpr, evalTerm)
  sav,       \* the save stack and the save set under nested save operations
  cancel,      \* the cancel token and the context: "none", "cancelled"
               \* (token only) or "ctx" (the context carries an error too)
  builtinErrors, \* e.builtinErrors.errs
  builtinCalls,  \* history: number of built-in implementations invoked
  ev           \* history: the last handler that completed, and what it did

withStacks == <<comprehensionCache, targetStack, inliningControl, functionMocks>>
saves == <<saveStack, saveSupport, partials>>
subs == <<red, uni, stp, cpr, mrg, prd, enm, cch, ndb, rsv, ord, vks, els, pol, qid, bod, sav>>
side == <<subs, cancel, builtinErrors, builtinCalls>>
main == <<prog, frames, stack, ret, retTerm, queryIDFact, virtualCache, hits,
          misses, vlog, withStacks, saves, results, ev, cancel, builtinErrors,
          builtinCalls>>
notRed == <<main, uni, stp, cpr, mrg, prd, enm, cch, ndb, rsv, ord, vks, els, pol, qid, bod, sav>>
notUni == <<main, red, stp, cpr, mrg, prd, enm, cch, ndb, rsv, ord, vks, els, pol, qid, bod, sav>>
notStp == <<main, red, uni, cpr, mrg, prd, enm, cch, ndb, rsv, ord, vks, els, pol, qid, bod, sav>>
notCpr == <<main, red, uni, stp, mrg, prd, enm, cch, ndb, rsv, ord, vks, els, pol, qid, bod, sav>>
notMrg == <<main, red, uni, stp, cpr, prd, enm, cch, ndb, rsv, ord, vks, els, pol, qid, bod, sav>>
notPrd == <<main, red, uni, stp, cpr, mrg, enm, cch, ndb, rsv, ord, vks, els, pol, qid, bod, sav>>
notEnm == <<main, red, uni, stp, cpr, mrg, prd, cch, ndb, rsv, ord, vks, els, pol, qid, bod, sav>>
notCch == <<main, red, uni, stp, cpr, mrg, prd, enm, ndb, rsv, ord, vks, els, pol, qid, bod, sav>>
notNdb == <<main, red, uni, stp, cpr, mrg, prd, enm, cch, rsv, ord, vks, els, pol, qid, bod, sav>>
notRsv == <<main, red, uni, stp, cpr, mrg, prd, enm, cch, ndb, ord, vks, els, pol, qid, bod, sav>>
notOrd == <<main, red, uni, stp, cpr, mrg, prd, enm, cch, ndb, rsv, vks, els, pol, qid, bod, sav>>
notVks == <<main, red, uni, stp, cpr, mrg, prd, enm, cch, ndb, rsv, ord, els, pol, qid, bod, sav>>
notEls == <<main, red, uni, stp, cpr, mrg, prd, enm, cch, ndb, rsv, ord, vks, pol, qid, bod, sav>>
notPol == <<main, red, uni, stp, cpr, mrg, prd, enm, cch, ndb, rsv, ord, vks, els, qid, bod, sav>>
notQid == <<main, red, uni, stp, cpr, mrg, prd, enm, cch, ndb, rsv, ord, vks, els, pol, bod, sav>>
notBod == <<main, red, uni, stp, cpr, mrg, prd, enm, cch, ndb, rsv, ord, vks, els, pol, qid, sav>>
notSav == <<main, red, uni, stp, cpr, mrg, prd, enm, cch, ndb, rsv, ord, vks, els, pol, qid, bod>>
vars == <<prog, frames, stack, ret, retTerm, queryIDFact, virtualCache, hits,
          misses, vlog, withStacks, saves, results, side, ev>>

NoIter == [k |-> "none", env |-> 0]

\* an activation of Go function (or closure body) fn on frame e
Act(fn, e, iter) ==
  [fn |-> fn, pc |-> "start", e |-> e, iter |-> iter, env |-> 0,
   child |-> 0, val |-> NoTerm, rule |-> NoRule, ref |-> "", i |-> 0,
   j |-> 0, prev |-> NoTerm, result |-> NoTerm, deferredEe |-> NoErr,
   findOne |-> FALSE, arg |-> NoTerm, out |-> NoTerm, cacheKey |-> FALSE,
   input |-> NoTerm, data |-> {}, oldInput |-> NoTerm, oldData |-> {},
   gid |-> 0, withs |-> <<>>, gidx |-> 0, gpre |-> <<>>, gpush |-> 0, gpop |-> 0,
   savedQueries |-> <<>>, product |-> <<>>,
   all |-> TRUE, done |-> FALSE, gdone |-> <<>>, gbodyErr |-> FALSE,
   gdefault |-> FALSE, gsols |-> 0, gcalls |-> 0, gvals |-> {}]

\* the activation that runs closure clo on frame e
Invoke(clo, e) == [Act(clo.k, e, NoIter) EXCEPT !.env = clo.env]
\* the same for a unify iterator, which finds the unified term in val
InvokeTerm(clo, e, v) == [Invoke(clo, e) EXCEPT !.val = v]

top == Len(stack)
cur == stack[top]
Front(s) == SubSeq(s, 1, Len(s) - 1)

\* activations left waiting in a `return f(...)` return when f does
RECURSIVE PopTails(_)
PopTails(s) ==
  IF s # <<>> /\ s[Len(s)].pc = "tail" THEN PopTails(Front(s)) ELSE s

\* the running activation moves to pc and calls act
CallFrom(s, pc, act) == Append([s EXCEPT ![Len(s)].pc = pc], act)
\* the running activation returns err
ReturnFrom(s) == PopTails(Front(s))

Running(fn, pc) == stack # <<>> /\ cur.fn = fn /\ cur.pc = pc

NoEvent ==
  [op |-> "none", sols |-> 0, calls |-> 0, err |-> NoErr, vals |-> {},
   default |-> FALSE, out |-> NoTerm, pre |-> <<>>, post |-> <<>>,
   push |-> 0, pop |-> 0, iterable |-> FALSE, dones |-> <<>>, n |-> 0,
   bodyErr |-> FALSE, domk |-> "", kind |-> "", iterErr |-> NoErr,
   added |-> 0]

(* ---------------------------------------------------------------------- *)
(* Frames                                                                  *)
(* ---------------------------------------------------------------------- *)
\* eval.closure: a copy of the whole struct with a new query
closure(e, query) ==
  [e EXCEPT !.index = 0, !.query = query, !.queryID = queryIDFact + 1,
            !.findOne = FALSE]

\* eval.child: the same copy, with fresh bindings
child(e, query) == [closure(e, query) EXCEPT !.bindings = NoTerm]

\* bindings.Plug of a rule's head value in frame f
Plug(head, f) ==
  CASE head.k = "const" -> head.v
    [] head.k = "var" -> head.v
    [] head.k = "input" -> f.input
    [] head.k = "sum" -> Num(f.bindings.n + f.input.n)
    [] OTHER -> f.bindings

\* The queries evaluated: every expression shape on its own, each one twice
\* in a row, pairs of calls of one function, expressions under a `with`
\* followed by a second expression, and `every` over small domains
Atoms ==
  {Lit(Bool(TRUE)), Lit(Bool(FALSE)), InputIs(Num(1)), InputGt(Num(1))}
  \cup {Ref(n) : n \in RuleNames}
  \cup {Call(f, Num(1)) : f \in FuncNames}
  \cup {CallOut(f, Num(1), FreshVar) : f \in FuncNames}
  \cup {CallOut(f, Num(1), Num(2)) : f \in FuncNames}
Exprs == Atoms \cup {Not(x) : x \in Atoms}
CallPairs ==
  {<<x, y>> :
     x \in {Call(f, Num(1)) : f \in FuncNames}
            \cup {CallOut(f, Num(1), o) : f \in FuncNames, o \in {FreshVar, Num(2)}},
     y \in {CallOut(f, n, FreshVar) : f \in FuncNames, n \in {Num(1), Num(2)}}}
Withs ==
  {With(x, WithInput(v)) :
     x \in {Ref("r"), Not(Ref("r")), Ref("c"), CallOut("f", Num(1), FreshVar),
            Gen(<<Num(1), Num(2)>>)},
     v \in Nums}
  \cup {With(Ref("q"), WithData("q", Num(1))),
        With(Not(Ref("p")), WithData("q", Num(1))),
        With(Call("g", Num(1)), WithFunc("g", Num(2))),
        With(CallOut("g", Num(1), Num(1)), WithFunc("g", Num(2)))}
Afters == {Ref("r"), Ref("q"), Not(Ref("q")), Call("g", Num(1)),
           CallOut("f", Num(1), FreshVar)}
Everys ==
  {Every(k, d, <<x>>) :
     k \in {"array", "object", "set", "number"},
     d \in {<<>>, <<Bool(TRUE)>>, <<Num(1), Bool(FALSE)>>, <<Bool(FALSE), Num(1)>>},
     x \in {BareVar, Not(BareVar), Ref("p"), Ref("c"), Not(Ref("q"))}}
Does == {"value", "false", "error", "halt"}
BuiltinQueries ==
  {<<Builtin(d)>> : d \in Does} \cup {<<Not(Builtin(d))>> : d \in Does}
  \cup {<<Builtin(d), x>> :
          d \in Does, x \in {Builtin(o) : o \in Does} \cup {Ref("c"), Ref("t")}}
\* bare terms that are not true
TermQueries ==
  {<<Lit(v)>> : v \in NotFalse}
  \cup {<<Not(Lit(v))>> : v \in NotFalse}
  \cup {<<Lit(v), Lit(Bool(FALSE))>> : v \in NotFalse}
Queries ==
  {<<x>> : x \in Exprs \cup Withs \cup Everys}
  \cup BuiltinQueries \cup TermQueries
  \cup {<<x, x>> : x \in Exprs}
  \cup {q \in CallPairs : q[1].rule = q[2].rule}
  \cup {<<x, y>> : x \in Withs, y \in Afters}
  \cup {<<With(CallOut("f", Num(1), FreshVar), WithInput(v)),
          With(CallOut("f", Num(1), FreshVar), WithInput(w))>> : v, w \in Nums}
  \cup {<<x, With(x, WithInput(v))>> :
          x \in {Ref("r"), CallOut("f", Num(1), FreshVar)}, v \in Nums}

\* partial evaluation, input unknown
PartialAtoms == {InputIs(Num(1)), InputGt(Num(1)), Lit(Bool(TRUE))}
PartialExprs ==
  PartialAtoms \cup {Not(x) : x \in PartialAtoms}
  \cup {With(x, WithInput(v)) :
          x \in {InputIs(Num(1)), InputGt(Num(1)), Not(InputIs(Num(1))),
                 Not(InputGt(Num(1)))},
          v \in Nums}
PartialQueries ==
  {<<x>> : x \in PartialExprs} \cup {<<x, y>> : x, y \in PartialExprs}

\* references to complete rules of known value, evaluated in both modes
\* and with the earlyExit flag on and off
EarlyQueries == {<<Ref("s")>>, <<Ref("c")>>, <<Ref("s"), Ref("t")>>}
\* complete rules without a value, read again after the first read
UndefinedQueries ==
  {<<Not(Ref("q")), Ref("q")>>, <<Not(Ref("q")), Not(Ref("e"))>>,
   <<Ref("w")>>, <<Not(Ref("w"))>>, <<Not(Ref("q")), Ref("d")>>}
\* complete rules with a default rule, the last one read twice
DefaultQueries == {<<Ref("d")>>, <<Ref("u")>>, <<Ref("y"), Ref("y")>>}
Programs ==
  [query : Queries, a : Vals, b : Vals, input : {NoTerm, Num(1)},
   partial : {FALSE}, earlyExit : {TRUE}]
  \cup [query : PartialQueries, a : {Num(1)}, b : {Num(1)}, input : {NoTerm},
        partial : {TRUE}, earlyExit : {TRUE}]
  \cup [query : EarlyQueries, a : Vals, b : Vals, input : {NoTerm},
        partial : BOOLEAN, earlyExit : BOOLEAN]
  \cup [query : UndefinedQueries, a : Vals, b : {Num(1)}, input : {NoTerm},
        partial : {FALSE}, earlyExit : {TRUE}]
  \cup [query : DefaultQueries, a : Vals, b : Vals, input : {NoTerm},
        partial : {FALSE}, earlyExit : {TRUE}]


(* ---------------------------------------------------------------------- *)
(* Unification and bindings, on their own                                  *)
(* ---------------------------------------------------------------------- *)
\* terms: variables, numbers and arrays of two of them
UVar(n) == [k |-> "var", n |-> n, elems |-> <<>>]
UNum(n) == [k |-> "num", n |-> n, elems |-> <<>>]
UArr(s) == [k |-> "arr", n |-> 0, elems |-> s]
UNil == [k |-> "nil", n |-> 0, elems |-> <<>>]
UScalars == {UVar(1), UVar(2)} \cup {UNum(n) : n \in 1..MaxVal}
UTerms == UScalars \cup {UArr(<<s, t>>) : s, t \in UScalars}
\* objects with ground keys: elems maps each key to its value
UObj(f) == [k |-> "obj", n |-> 0, elems |-> f]
\* the values of short arrays and of objects
SymValues == {UVar(1), UNum(1), UNum(MaxVal)}
SymKeys == {1, 2}
\* the terms unified in both orders: also arrays of one element and
\* objects of zero, one and two keys
SymTerms ==
  UTerms \cup {UArr(<<s>>) : s \in SymValues}
         \cup {UObj(f) : f \in UNION {[K -> SymValues] : K \in SUBSET SymKeys}}

\* a bindings frame maps a variable to (term, frame); the two frames of a
\* biunify call are kept in one map, keyed by <<frame, variable>>
UKeys == {1, 2} \X {1, 2}
Unbound == [t |-> UNil, f |-> 0]
\* bindings.apply: one step of dereference
apply(b, t, f) ==
  IF t.k = "var" /\ b[<<f, t.n>>] # Unbound THEN b[<<f, t.n>>]
  ELSE [t |-> t, f |-> f]
\* bindings.bind: the entry, and the undo entry with what it replaces
bind(b, key, t, f) == [b EXCEPT ![key] = [t |-> t, f |-> f]]
undoEntry(b, key) == [key |-> key, prior |-> b[key]]
Undo(b, u) == [b EXCEPT ![u.key] = u.prior]
\* bindings.Plug: the term with its bound variables replaced; a variable
\* left unbound is named after its frame
RECURSIVE UPlug(_, _, _)
UPlug(b, t, f) ==
  IF t.k = "var"
  THEN IF b[<<f, t.n>>] = Unbound THEN UVar(10 * f + t.n)
       ELSE UPlug(b, b[<<f, t.n>>].t, b[<<f, t.n>>].f)
  ELSE IF t.k = "arr"
  THEN UArr([i \in 1..Len(t.elems) |-> UPlug(b, t.elems[i], f)])
  ELSE IF t.k = "obj"
  THEN UObj([i \in DOMAIN t.elems |-> UPlug(b, t.elems[i], f)])
  ELSE t

\* an activation of biunify, biunifyArraysRec, evalTerm.enumerate or the
\* caller's iterator; cont names the activation whose next element is the
\* iterator of this call (0: the caller's iterator)
UAct(fn, a, b, fa, fb, idx, cont) ==
  [fn |-> fn, pc |-> "start", a |-> a, b |-> b, fa |-> fa, fb |-> fb,
   idx |-> idx, cont |-> cont, undo |-> <<>>, dee |-> NoErr]
NoUnify ==
  [b |-> [key \in UKeys |-> Unbound], b0 |-> [key \in UKeys |-> Unbound],
   stk |-> <<>>, ret |-> NoErr, binds |-> 0, undos |-> 0, seen |-> <<>>,
   plan |-> <<>>, calls |-> 0, a |-> UNil, b2 |-> UNil, same |-> FALSE,
   phase |-> 0, first |-> <<>>]


(* ---------------------------------------------------------------------- *)
(* evalStep with and without tracing: the data                             *)
(* ---------------------------------------------------------------------- *)
\* one evaluation of evalStep: where it is, the solutions its callee has
\* delivered, the inlining-disable stack, the trace events emitted, what
\* each continuation saw, and the error returned
NoRun ==
  [pc |-> "start", i |-> 0, ic |-> <<>>, defined |-> FALSE, events |-> <<>>,
   conts |-> <<>>, support |-> FALSE, err |-> NoErr]
\* the expression and what its callee (unify, evalCall, evalEvery.eval) and
\* the continuation will do; run[t] is its evaluation with traceEnabled = t
NoStep ==
  [kind |-> "", partial |-> FALSE, sols |-> <<>>, calleeErr |-> NoErr,
   plan |-> <<>>, deflt |-> FALSE, run |-> [t \in BOOLEAN |-> NoRun]]

(* ---------------------------------------------------------------------- *)
(* Object comprehensions: the data                                         *)
(* ---------------------------------------------------------------------- *)
\* sols: what the body's solutions plug the index key, the head key and the
\* head value to; cached: the comprehension has an index, so it is built
\* through the comprehension cache; node: the cache element, index key ->
\* object (Nil: none)
NoCompr ==
  [sols |-> <<>>, cached |-> FALSE, at |-> 0, i |-> 0, result |-> Nil,
   node |-> [v \in 1..2 |-> Nil], err |-> NoErr, pc |-> ""]

(* ---------------------------------------------------------------------- *)
(* merge: the data                                                         *)
(* ---------------------------------------------------------------------- *)
\* values: numbers, and objects (a function from the keys it has)
MNil == [k |-> "nil", n |-> 0, f |-> <<>>]
MNum(n) == [k |-> "num", n |-> n, f |-> <<>>]
MObj(f) == [k |-> "obj", n |-> 0, f |-> f]
IsObj(v) == v.k = "obj"
NoMerge ==
  [a |-> MNil, b |-> MNil, a0 |-> MNil, b0 |-> MNil, result |-> MNil,
   ok |-> FALSE, pc |-> "", caller |-> "", err |-> <<>>]

(* ---------------------------------------------------------------------- *)
(* Inlining a negation's residual queries: the data                        *)
(* ---------------------------------------------------------------------- *)
\* queries: savedQueries; withs: the modifiers of the negated expression;
\* failAt: the call at which the continuation returns an error (0: never);
\* stk: the activations of complementedCartesianProduct; calls: the save
\* stack's query at each call of the continuation; posts: the save stack
\* after each return of saveInlinedNegatedExprs
NoProduct ==
  [queries |-> <<>>, withs |-> <<>>, failAt |-> 0, stk |-> <<>>,
   saveStack |-> <<<<>>>>, base |-> <<<<>>>>, calls |-> <<>>, posts |-> <<>>,
   err |-> NoErr, pc |-> "", kind |-> ""]

(* ---------------------------------------------------------------------- *)
(* Enumeration of a non-ground reference position: the data                *)
(* ---------------------------------------------------------------------- *)
\* fn: which enumerate; doc: the kind of the document at the position, n its
\* keys, indices or members; node: the rule-subtree children (evalTree);
\* plan: what the continuation of each candidate returns; tried: the
\* candidates whose continuation has run; deferred: the kept signal
NoEnum ==
  [fn |-> "", doc |-> "", n |-> 0, node |-> 0, plan |-> <<>>, pc |-> "",
   i |-> 0, tried |-> <<>>, deferred |-> NoErr, ret |-> NoErr]

(* ---------------------------------------------------------------------- *)
(* Array and set comprehensions through the comprehension cache: the data  *)
(* ---------------------------------------------------------------------- *)
\* the materialised comprehension: an array (v a sequence) or a set (v a set)
CNil == [k |-> "nil", v |-> <<>>]
ArrayTerm(s) == [k |-> "array", v |-> s]
SetTerm(s) == [k |-> "set", v |-> s]
\* kind: array or set comprehension; indexed: the compiler gave it an index;
\* sols: what each solution of the body, run with the index key unbound,
\* plugs the index key and the head term to; ats: the index-key values of
\* the outer bindings at the successive evaluations, j the current one;
\* elem: the cache scope has an element for the comprehension, node;
\* results: what each evaluation unified with the other term
NoCache ==
  [kind |-> "", indexed |-> FALSE, sols |-> <<>>, ats |-> <<>>, j |-> 0,
   pc |-> "", i |-> 0, elem |-> FALSE, node |-> [v \in 1..2 |-> CNil],
   building |-> [v \in 1..2 |-> CNil], result |-> CNil, results |-> <<>>,
   builds |-> 0, hits |-> 0, misses |-> 0, skips |-> 0]

(* ---------------------------------------------------------------------- *)
(* Non-deterministic built-ins and the ND cache: the data                  *)
(* ---------------------------------------------------------------------- *)
\* form: how the call uses the result ("none": no result declared, "pred":
\* as many operands as declared arguments, "out": an output term, term);
\* canUse: the built-in is non-deterministic and the caller gave a cache;
\* plan: the output of each invocation of the implementation; rounds: the
\* query evaluates the identical call rounds[r] times in a row (each in the
\* continuation of the one before), one round after the other; cache: the
\* ND cache's entry for the call (<<>>: none); log: what each call did
NoNdb ==
  [form |-> "", term |-> NoTerm, canUse |-> FALSE, plan |-> <<>>,
   rounds |-> <<>>, r |-> 0, stk |-> <<>>, cache |-> <<>>, invoked |-> 0,
   sols |-> 0, log |-> <<>>]

(* ---------------------------------------------------------------------- *)
(* Resolve: the data                                                       *)
(* ---------------------------------------------------------------------- *)
\* args: the call site's arguments, a variable among them bound to `bound`;
\* input: the input document (MNil: none); data: the overlay the `with`
\* modifiers built (MNil: none) and targets their target paths; store: the
\* storage's document; cache: the base cache, path -> value; reads: the
\* paths read from storage; log: what each call of Resolve did
NoResolve ==
  [args |-> <<>>, bound |-> 0, input |-> MNil, data |-> MNil, targets |-> {},
   store |-> MNil, cache |-> <<>>, reads |-> <<>>, log |-> <<>>]
RVar == [k |-> "var", n |-> 0, f |-> <<>>]

(* ---------------------------------------------------------------------- *)
(* Ordered rules under partial evaluation: the data                        *)
(* ---------------------------------------------------------------------- *)
\* kind: "ref" for data.t.<name> = rterm, "call" for data.t.<name>(arg);
\* refUnknown: the reference is in the save set or its rules depend on an
\* unknown; argUnknown: the other operand is unknown; withs: the expression
\* carries a `with`; shallow, disabled: the inlining control; output: the
\* call captures its result; constant: rterm is a constant, equal to the
\* default value when equalsDefault; mode: what the rule loop does with a
\* body; bodies: the rule bodies evaluated, <<i, j>> for else rule j of rule
\* i and <<0, 0>> for the default; iters: the continuation's invocations
NoOrdered ==
  [pc |-> "idle", kind |-> "", name |-> "", a |-> NoTerm, b |-> NoTerm,
   partial |-> FALSE, refUnknown |-> FALSE, argUnknown |-> FALSE,
   withs |-> FALSE, shallow |-> FALSE, disabled |-> FALSE, output |-> FALSE,
   constant |-> FALSE, equalsDefault |-> FALSE,
   mode |-> "", i |-> 0, j |-> 0, defined |-> FALSE,
   saveStack |-> <<>>, saveSupport |-> {}, bodies |-> <<>>, iters |-> 0]

(* ---------------------------------------------------------------------- *)
(* Virtual-cache keys with a unification scope: the data                   *)
(* ---------------------------------------------------------------------- *)
\* cache: the virtual cache's entries, each a key and its term, in the order
\* they were put; log: what each read of data.test.a[...] did; hits, misses:
\* the counters
NoScope == [cache |-> <<>>, log |-> <<>>, hits |-> 0, misses |-> 0]
\* the terms of a reference: a number, a variable, a composite that is not
\* ground ([y, 1]); and the scope term of a cache key
SNum(n) == [k |-> "num", n |-> n, v |-> "", ref |-> <<>>]
SVar(v) == [k |-> "var", n |-> 0, v |-> v, ref |-> <<>>]
SComp == [k |-> "comp", n |-> 0, v |-> "y", ref |-> <<>>]
vcKeyScope(ref) == [k |-> "scope", n |-> 0, v |-> "", ref |-> ref]
\* no term: the nil of virtualCache.Get and of Value.Find
VNil == {<<>>}

\* the else clauses a rule of the walked rule set has at most
MaxElse == 2
\* the walk of evalValue over one rule set: rules is the number of rules,
\* each with elses else clauses; tried lists the clauses evaluated so far
NoChain ==
  [pc |-> "none", kind |-> "none", partial |-> FALSE, captured |-> FALSE,
   rules |-> 0, elses |-> 0, dflt |-> FALSE, i |-> 0, j |-> 0, prev |-> 0,
   nxt |-> 0, err |-> <<>>, outerEe |-> <<>>, tried |-> <<>>, iters |-> 0,
   ret |-> <<>>]

\* the items a pool keeps at most, the queries run one after the other, and
\* the frames in use at once besides the query's own
MaxPool == 2
MaxQueries == 2
MaxDepth == 2
\* &eval{}: a frame that refers to no query (query 0 stands for the nil
\* bindings, caches, input and data)
ZeroEval == [query |-> 0, defined |-> FALSE, findOne |-> FALSE]
\* &evalResolver{}
ZeroResolver == [e |-> 0, args |-> 0]
\* the two pools, the frames in use (the query's own first), the resolver
\* in use, and what the last Get returned
NoPooled ==
  [evalPool |-> <<>>, resolverPool |-> <<>>, live |-> <<>>,
   resolver |-> <<>>, query |-> 0, got |-> ZeroEval]

\* the identifiers one query hands out at most
MaxIds == 5
\* &queryIDFactory{}, no frame made yet: curr is the factory's counter, live
\* the frames under evaluation, made every frame in the order of creation
NoFactory == [curr |-> 0, live |-> <<>>, made |-> <<>>]

\* the expressions of a body and the elements of an array at most
MaxBody == 2
MaxArr == 2
\* an unbound variable of the body
NoIdx == 0 - 1
\* the evaluation of a body of expressions `arr[t]`: query holds for each
\* expression the array's length and t, a variable or a number; index is the
\* frame's expression index, bindings the value of each variable, loops the
\* counters of the enumerations under way (0 for a position that is ground);
\* free is the bindings with no variable bound;
\* evals, binds and sols list the expressions evaluated, the bindings made
\* and the solutions given to the continuation
NoBody ==
  [pc |-> "none", query |-> <<>>, index |-> 0, bindings |-> <<>>,
   free |-> <<>>, loops |-> <<>>, deferred |-> <<>>, plan |-> <<>>, err |-> <<>>,
   evals |-> <<>>, binds |-> <<>>, sols |-> <<>>]

\* the save operations begun in one evaluation at most
MaxOps == 2
\* the save stack (one query of saved expressions per level), the save set,
\* the operations under way with the stack and set they began with, the
\* operations that have returned with the stack and set before and after,
\* and what each run of a continuation found on the stack
NoSaved ==
  [stack |-> <<>>, set |-> <<>>, ops |-> <<>>, done |-> <<>>, seen |-> <<>>,
   n |-> 0]

\* the evaluator built for query p.query, about to run
Machine(p) ==
  /\ prog = p
  /\ frames = <<[query |-> p.query, index |-> 0, findOne |-> FALSE,
                 defined |-> FALSE, queryID |-> 0, input |-> p.input,
                 data |-> {}, bindings |-> NoTerm]>>
  /\ comprehensionCache = <<{}>>
  /\ targetStack = <<>>
  /\ inliningControl = <<>>
  /\ functionMocks = <<>>
  /\ saveStack = <<<<>>>>
  /\ saveSupport = {}
  /\ partials = <<>>
  /\ retTerm = NoTerm
  /\ virtualCache = <<<<>>>>
  /\ hits = 0
  /\ misses = 0
  /\ vlog = [log |-> <<>>, scopes |-> <<0>>, n |-> 0]
  /\ ret = NoErr
  /\ queryIDFact = 0
  /\ results = 0
  /\ ev = NoEvent
  /\ cancel = "none"
  /\ builtinErrors = <<>>
  /\ builtinCalls = 0

\* no evaluator: the state of the specifications of one function
Idle ==
  /\ Machine([query |-> <<>>, a |-> Num(1), b |-> Num(1), input |-> NoTerm,
              partial |-> FALSE, earlyExit |-> TRUE])
  /\ stack = <<>>
\* the functions specified on their own are not running
NoSubs ==
  /\ red = NoReduce
  /\ uni = NoUnify
  /\ stp = NoStep
  /\ cpr = NoCompr
  /\ mrg = NoMerge
  /\ prd = NoProduct
  /\ enm = NoEnum
  /\ cch = NoCache
  /\ ndb = NoNdb
  /\ rsv = NoResolve
  /\ ord = NoOrdered
  /\ vks = NoScope
  /\ els = NoChain
  /\ pol = NoPooled
  /\ qid = NoFactory
  /\ bod = NoBody
  /\ sav = NoSaved
OnlyRed ==
  /\ uni = NoUnify
  /\ stp = NoStep
  /\ cpr = NoCompr
  /\ mrg = NoMerge
  /\ prd = NoProduct
  /\ enm = NoEnum
  /\ cch = NoCache
  /\ ndb = NoNdb
  /\ rsv = NoResolve
  /\ ord = NoOrdered
  /\ vks = NoScope
  /\ els = NoChain
  /\ pol = NoPooled
  /\ qid = NoFactory
  /\ bod = NoBody
  /\ sav = NoSaved
OnlyUni ==
  /\ red = NoReduce
  /\ stp = NoStep
  /\ cpr = NoCompr
  /\ mrg = NoMerge
  /\ prd = NoProduct
  /\ enm = NoEnum
  /\ cch = NoCache
  /\ ndb = NoNdb
  /\ rsv = NoResolve
  /\ ord = NoOrdered
  /\ vks = NoScope
  /\ els = NoChain
  /\ pol = NoPooled
  /\ qid = NoFactory
  /\ bod = NoBody
  /\ sav = NoSaved
OnlyStp ==
  /\ red = NoReduce
  /\ uni = NoUnify
  /\ cpr = NoCompr
  /\ mrg = NoMerge
  /\ prd = NoProduct
  /\ enm = NoEnum
  /\ cch = NoCache
  /\ ndb = NoNdb
  /\ rsv = NoResolve
  /\ ord = NoOrdered
  /\ vks = NoScope
  /\ els = NoChain
  /\ pol = NoPooled
  /\ qid = NoFactory
  /\ bod = NoBody
  /\ sav = NoSaved
OnlyCpr ==
  /\ red = NoReduce
  /\ uni = NoUnify
  /\ stp = NoStep
  /\ mrg = NoMerge
  /\ prd = NoProduct
  /\ enm = NoEnum
  /\ cch = NoCache
  /\ ndb = NoNdb
  /\ rsv = NoResolve
  /\ ord = NoOrdered
  /\ vks = NoScope
  /\ els = NoChain
  /\ pol = NoPooled
  /\ qid = NoFactory
  /\ bod = NoBody
  /\ sav = NoSaved
OnlyMrg ==
  /\ red = NoReduce
  /\ uni = NoUnify
  /\ stp = NoStep
  /\ cpr = NoCompr
  /\ prd = NoProduct
  /\ enm = NoEnum
  /\ cch = NoCache
  /\ ndb = NoNdb
  /\ rsv = NoResolve
  /\ ord = NoOrdered
  /\ vks = NoScope
  /\ els = NoChain
  /\ pol = NoPooled
  /\ qid = NoFactory
  /\ bod = NoBody
  /\ sav = NoSaved
OnlyPrd ==
  /\ red = NoReduce
  /\ uni = NoUnify
  /\ stp = NoStep
  /\ cpr = NoCompr
  /\ mrg = NoMerge
  /\ enm = NoEnum
  /\ cch = NoCache
  /\ ndb = NoNdb
  /\ rsv = NoResolve
  /\ ord = NoOrdered
  /\ vks = NoScope
  /\ els = NoChain
  /\ pol = NoPooled
  /\ qid = NoFactory
  /\ bod = NoBody
  /\ sav = NoSaved
OnlyEnm ==
  /\ red = NoReduce
  /\ uni = NoUnify
  /\ stp = NoStep
  /\ cpr = NoCompr
  /\ mrg = NoMerge
  /\ prd = NoProduct
  /\ cch = NoCache
  /\ ndb = NoNdb
  /\ rsv = NoResolve
  /\ ord = NoOrdered
  /\ vks = NoScope
  /\ els = NoChain
  /\ pol = NoPooled
  /\ qid = NoFactory
  /\ bod = NoBody
  /\ sav = NoSaved
OnlyCch ==
  /\ red = NoReduce
  /\ uni = NoUnify
  /\ stp = NoStep
  /\ cpr = NoCompr
  /\ mrg = NoMerge
  /\ prd = NoProduct
  /\ enm = NoEnum
  /\ ndb = NoNdb
  /\ rsv = NoResolve
  /\ ord = NoOrdered
  /\ vks = NoScope
  /\ els = NoChain
  /\ pol = NoPooled
  /\ qid = NoFactory
  /\ bod = NoBody
  /\ sav = NoSaved
OnlyNdb ==
  /\ red = NoReduce
  /\ uni = NoUnify
  /\ stp = NoStep
  /\ cpr = NoCompr
  /\ mrg = NoMerge
  /\ prd = NoProduct
  /\ enm = NoEnum
  /\ cch = NoCache
  /\ rsv = NoResolve
  /\ ord = NoOrdered
  /\ vks = NoScope
  /\ els = NoChain
  /\ pol = NoPooled
  /\ qid = NoFactory
  /\ bod = NoBody
  /\ sav = NoSaved
OnlyRsv ==
  /\ red = NoReduce
  /\ uni = NoUnify
  /\ stp = NoStep
  /\ cpr = NoCompr
  /\ mrg = NoMerge
  /\ prd = NoProduct
  /\ enm = NoEnum
  /\ cch = NoCache
  /\ ndb = NoNdb
  /\ ord = NoOrdered
  /\ vks = NoScope
  /\ els = NoChain
  /\ pol = NoPooled
  /\ qid = NoFactory
  /\ bod = NoBody
  /\ sav = NoSaved
OnlyOrd ==
  /\ red = NoReduce
  /\ uni = NoUnify
  /\ stp = NoStep
  /\ cpr = NoCompr
  /\ mrg = NoMerge
  /\ prd = NoProduct
  /\ enm = NoEnum
  /\ cch = NoCache
  /\ ndb = NoNdb
  /\ rsv = NoResolve
  /\ vks = NoScope
  /\ els = NoChain
  /\ pol = NoPooled
  /\ qid = NoFactory
  /\ bod = NoBody
  /\ sav = NoSaved
OnlyVks ==
  /\ red = NoReduce
  /\ uni = NoUnify
  /\ stp = NoStep
  /\ cpr = NoCompr
  /\ mrg = NoMerge
  /\ prd = NoProduct
  /\ enm = NoEnum
  /\ cch = NoCache
  /\ ndb = NoNdb
  /\ rsv = NoResolve
  /\ ord = NoOrdered
  /\ els = NoChain
  /\ pol = NoPooled
  /\ qid = NoFactory
  /\ bod = NoBody
  /\ sav = NoSaved
OnlyEls ==
  /\ red = NoReduce
  /\ uni = NoUnify
  /\ stp = NoStep
  /\ cpr = NoCompr
  /\ mrg = NoMerge
  /\ prd = NoProduct
  /\ enm = NoEnum
  /\ cch = NoCache
  /\ ndb = NoNdb
  /\ rsv = NoResolve
  /\ ord = NoOrdered
  /\ vks = NoScope
  /\ pol = NoPooled
  /\ qid = NoFactory
  /\ bod = NoBody
  /\ sav = NoSaved
OnlyPol ==
  /\ red = NoReduce
  /\ uni = NoUnify
  /\ stp = NoStep
  /\ cpr = NoCompr
  /\ mrg = NoMerge
  /\ prd = NoProduct
  /\ enm = NoEnum
  /\ cch = NoCache
  /\ ndb = NoNdb
  /\ rsv = NoResolve
  /\ ord = NoOrdered
  /\ vks = NoScope
  /\ els = NoChain
  /\ qid = NoFactory
  /\ bod = NoBody
  /\ sav = NoSaved
OnlyQid ==
  /\ red = NoReduce
  /\ uni = NoUnify
  /\ stp = NoStep
  /\ cpr = NoCompr
  /\ mrg = NoMerge
  /\ prd = NoProduct
  /\ enm = NoEnum
  /\ cch = NoCache
  /\ ndb = NoNdb
  /\ rsv = NoResolve
  /\ ord = NoOrdered
  /\ vks = NoScope
  /\ els = NoChain
  /\ pol = NoPooled
  /\ bod = NoBody
  /\ sav = NoSaved
OnlyBod ==
  /\ red = NoReduce
  /\ uni = NoUnify
  /\ stp = NoStep
  /\ cpr = NoCompr
  /\ mrg = NoMerge
  /\ prd = NoProduct
  /\ enm = NoEnum
  /\ cch = NoCache
  /\ ndb = NoNdb
  /\ rsv = NoResolve
  /\ ord = NoOrdered
  /\ vks = NoScope
  /\ els = NoChain
  /\ pol = NoPooled
  /\ qid = NoFactory
  /\ sav = NoSaved
OnlySav ==
  /\ red = NoReduce
  /\ uni = NoUnify
  /\ stp = NoStep
  /\ cpr = NoCompr
  /\ mrg = NoMerge
  /\ prd = NoProduct
  /\ enm = NoEnum
  /\ cch = NoCache
  /\ ndb = NoNdb
  /\ rsv = NoResolve
  /\ ord = NoOrdered
  /\ vks = NoScope
  /\ els = NoChain
  /\ pol = NoPooled
  /\ qid = NoFactory
  /\ bod = NoBody

Init ==
  /\ \E p \in Programs : Machine(p)
  /\ stack = <<Act("Run", 1, NoIter)>>
  /\ NoSubs

(* ---------------------------------------------------------------------- *)
(* Documents, targets and mocks under `with`                               *)
(* ---------------------------------------------------------------------- *)
SelectTarget(withs, target) == SelectSeq(withs, LAMBDA w : w.target = target)

\* mergeTermWithValues for the input document: a replacement of the root
\* takes the place of the document; without replacements the document stays
mergeInput(exist, pairs) ==
  IF pairs = <<>> THEN exist ELSE pairs[Len(pairs)].value

\* mergeTermWithValues for the data document: each pair is set at its path
RECURSIVE mergeData(_, _)
mergeData(exist, pairs) ==
  IF pairs = <<>> THEN exist
  ELSE mergeData({d \in exist : d.name # pairs[1].name}
                   \cup {[name |-> pairs[1].name, value |-> pairs[1].value]},
                 Tail(pairs))

\* refStack.Prefixed: some pushed target is a prefix of data.t.<n>
Prefixed(n) == \E i \in 1..Len(targetStack) : n \in targetStack[i]

\* functionMocksStack.Get: the innermost mock of data.t.<f>, NoTerm if none
RECURSIVE mockGet(_, _)
mockGet(mocks, f) ==
  IF mocks = <<>> THEN NoTerm
  ELSE LET m == {w \in mocks[Len(mocks)] : w.name = f}
       IN IF m # {} THEN (CHOOSE w \in m : TRUE).value
          ELSE mockGet(Front(mocks), f)

\* what a `with` may change, as seen from frame f
Context(f) ==
  [input |-> f.input, data |-> f.data, functionMocks |-> functionMocks,
   virtualCache |-> Len(virtualCache),
   comprehensionCache |-> Len(comprehensionCache),
   targetStack |-> Len(targetStack), inliningControl |-> Len(inliningControl)]

(* ---------------------------------------------------------------------- *)
(* Run and the top-level iterator                                          *)
(* ---------------------------------------------------------------------- *)
Run ==
  /\ Running("Run", "start")
  /\ stack' = CallFrom(stack, "done",
                       Act("evalExpr", 1, [k |-> "result", env |-> top]))
  /\ UNCHANGED <<side, prog, frames, ret, queryIDFact, results, ev, retTerm, virtualCache, hits, misses, withStacks, saves, vlog>>

result ==
  /\ Running("result", "start")
  /\ results' = results + 1
  /\ partials' = IF prog.partial
                 THEN Append(partials, saveStack[Len(saveStack)])
                 ELSE partials
  /\ UNCHANGED <<saveStack, saveSupport>>
  /\ stack' = ReturnFrom(stack)
  /\ ret' = NoErr
  /\ UNCHANGED <<side, prog, frames, queryIDFact, ev, retTerm, virtualCache, hits, misses, withStacks, vlog>>

(* ---------------------------------------------------------------------- *)
(* evalExpr, next, evalStep                                                *)
(* ---------------------------------------------------------------------- *)
wrapErr(e, err) == IF frames[e].findOne THEN <<"E">> \o err ELSE <<"D">> \o err

\* the error evalExpr makes of a cancelled token: it wraps the context's
\* error when the context has one
CancelErr(c) == IF c = "ctx" THEN <<"Cancel", "ctx">> ELSE <<"Cancel">>

\* a faulty variant: the end of a body never raises an early exit
foundNone(e) == FALSE
\* evalExpr at the end of the query: e.findOne && !e.partial()
foundOne(e) == frames[e].findOne /\ ~prog.partial

evalExpr ==
  /\ Running("evalExpr", "start")
  /\ LET e == cur.e IN
     IF cancel # "none"
     THEN /\ stack' = ReturnFrom(stack)
          /\ ret' = CancelErr(cancel)
     ELSE /\ ret' = ret
          /\ IF frames[e].index >= Len(frames[e].query)
             THEN stack' = CallFrom(stack, "iterated", Invoke(cur.iter, e))
             ELSE IF Len(frames[e].query[frames[e].index + 1].with) > 0
             THEN stack' = CallFrom(stack, "tail", Act("evalWith", e, cur.iter))
             ELSE stack' = CallFrom(stack, "tail",
                                    Act("evalStep", e, [k |-> "next", env |-> top]))
  /\ UNCHANGED <<side, prog, frames, queryIDFact, results, ev, retTerm, virtualCache, hits, misses, withStacks, saves, vlog>>

evalExprIterated ==
  /\ Running("evalExpr", "iterated")
  /\ LET e == cur.e IN
     ret' = IF ret # NoErr
            THEN IF IsEarlyExit(ret) \/ IsDeferredEarlyExit(ret)
                 THEN wrapErr(e, ret) ELSE ret
            ELSE IF foundOne(e) THEN <<"E">> ELSE NoErr
  /\ stack' = ReturnFrom(stack)
  /\ UNCHANGED <<side, prog, frames, queryIDFact, results, ev, retTerm, virtualCache, hits, misses, withStacks, saves, vlog>>

\* the closure evalExpr hands to evalStep: func(e) { return e.next(iter) }
next ==
  /\ Running("next", "start")
  /\ frames' = [frames EXCEPT ![cur.e].index = @ + 1]
  /\ stack' = CallFrom(stack, "back",
                       Act("evalExpr", cur.e, stack[cur.env].iter))
  /\ UNCHANGED <<side, prog, ret, queryIDFact, results, ev, retTerm, virtualCache, hits, misses, withStacks, saves, vlog>>

nextBack ==
  /\ Running("next", "back")
  /\ frames' = [frames EXCEPT ![cur.e].index = @ - 1]
  /\ stack' = ReturnFrom(stack)
  /\ UNCHANGED <<side, prog, ret, queryIDFact, results, ev, retTerm, virtualCache, hits, misses, withStacks, saves, vlog>>

expr == frames[cur.e].query[frames[cur.e].index + 1]

evalStepNot ==
  /\ Running("evalStep", "start")
  /\ expr.neg
  /\ stack' = CallFrom(stack, "tail", Act("evalNot", cur.e, cur.iter))
  /\ UNCHANGED <<side, prog, frames, ret, queryIDFact, results, ev, retTerm, virtualCache, hits, misses, withStacks, saves, vlog>>

\* a bare literal: unified with a generated variable, then the iterator
\* that tests the variable runs
evalStepTerm ==
  /\ Running("evalStep", "start")
  /\ ~expr.neg /\ expr.k \in {"lit", "var"}
  /\ stack' = CallFrom(stack, "tail",
                       InvokeTerm([k |-> "stepTerm", env |-> top], cur.e,
                                  IF expr.k = "lit" THEN expr.v
                                  ELSE frames[cur.e].bindings))
  /\ UNCHANGED ret
  /\ UNCHANGED <<side, prog, frames, queryIDFact, results, ev, retTerm, virtualCache, hits, misses, withStacks, saves, vlog>>

\* a faulty variant: what is zero or empty counts as false
isFalsy(v) == v.n = 0
\* e.bindings.Plug(rterm).Equal(ast.InternedTerm(false))
isFalse(v) == v = Bool(FALSE)
\* the iterator of a bare term: iter(e) unless the term is false
stepTerm ==
  /\ Running("stepTerm", "start")
  /\ IF ~isFalse(cur.val)
     THEN /\ stack' = CallFrom(stack, "tail",
                               Invoke(stack[cur.env].iter, stack[cur.env].e))
          /\ ret' = ret
     ELSE /\ stack' = ReturnFrom(stack)
          /\ ret' = NoErr
  /\ UNCHANGED <<side, prog, frames, retTerm, queryIDFact, virtualCache, hits, misses, results, ev, withStacks, saves, vlog>>

\* x = input: the iterator runs when the input document is defined
evalStepEquality ==
  /\ Running("evalStep", "start")
  /\ ~expr.neg /\ expr.k = "inp" /\ ~prog.partial
  /\ IF frames[cur.e].input # NoTerm
     THEN /\ stack' = CallFrom(stack, "tail", Invoke(cur.iter, cur.e))
          /\ ret' = ret
     ELSE /\ stack' = ReturnFrom(stack)
          /\ ret' = NoErr
  /\ UNCHANGED <<side, prog, frames, retTerm, queryIDFact, virtualCache, hits, misses, results, ev, withStacks, saves, vlog>>

\* a bare reference to a complete rule: unify -> biunifyRef -> evalTree ->
\* evalVirtual -> evalVirtualComplete.eval -> evalValue
\* (evalTree.next leaves the virtual document alone under a `with` target:
\* the reference then resolves against e.data)
evalStepRef ==
  /\ Running("evalStep", "start")
  /\ ~expr.neg /\ expr.k = "ref"
  /\ IF Prefixed(expr.rule)
     THEN LET d == {x \in frames[cur.e].data : x.name = expr.rule}
          IN IF d # {}
             THEN /\ stack' = CallFrom(stack, "tail",
                        InvokeTerm([k |-> "stepTerm", env |-> top], cur.e,
                                   (CHOOSE x \in d : TRUE).value))
                  /\ ret' = ret
             ELSE /\ stack' = ReturnFrom(stack)
                  /\ ret' = NoErr
     ELSE /\ stack' = CallFrom(stack, "tail",
             [Act("evalValue", cur.e, [k |-> "stepTerm", env |-> top])
               EXCEPT !.ref = expr.rule,
                      !.findOne = getRules(prog.a, prog.b, expr.rule, prog.earlyExit).EarlyExit])
          /\ ret' = ret
  /\ UNCHANGED <<side, prog, frames, retTerm, queryIDFact, virtualCache, hits, misses, results, ev, withStacks, saves, vlog>>

(* ---------------------------------------------------------------------- *)
(* The virtual cache                                                       *)
(* ---------------------------------------------------------------------- *)
vcTop == virtualCache[Len(virtualCache)]
\* virtualCache.Put on the current scope; NoTerm records "undefined"
vcPut(vc, key, term) ==
  [vc EXCEPT ![Len(vc)] =
     [k \in DOMAIN @ \cup {key} |-> IF k = key THEN term ELSE @[k]]]
\* the cache key of a complete rule, and of a call with its plugged argument
vcKey(ref, arg) == [ref |-> ref, arg |-> arg]
\* virtualCache.Get on the current scope: NoTerm when the key has no entry
vcGet(vc, key) ==
  IF key \in DOMAIN vc[Len(vc)] THEN vc[Len(vc)][key] ELSE NoTerm

\* the history of the cache: every registered hit and miss, every Put and
\* every rule body evaluated on behalf of a miss, with the cache scope and the
\* documents and mocks in force
vlPush(l) == [l EXCEPT !.scopes = Append(@, l.n + 1), !.n = @ + 1]
vlPop(l) == [l EXCEPT !.scopes = Front(@)]
vlAdd(l, k, kind, val, by, f) ==
  [l EXCEPT !.log = Append(@,
     [scope |-> l.scopes[Len(l.scopes)], key |-> k, kind |-> kind,
      val |-> val, by |-> by,
      ctx |-> [input |-> f.input, data |-> f.data,
               functionMocks |-> functionMocks, targetStack |-> targetStack]])]

\* the end of an evaluation that missed, with the error it returns
vlEnd(l, k, by, f, err, vals) ==
  [l EXCEPT !.log = Append(@,
     [scope |-> l.scopes[Len(l.scopes)], key |-> k, kind |-> "end",
      val |-> NoTerm, by |-> by, err |-> err, vals |-> vals,
      ctx |-> [input |-> f.input, data |-> f.data,
               functionMocks |-> functionMocks, targetStack |-> targetStack]])]

\* the clause of the rule set that evalValue, at activation par, has handed
\* to evalValueRule: rule i's own body (j = 0), its j-th else clause, or
\* the default rule (<<0, 0>>)
clauseAt(par) == IF par.pc = "defaulted" THEN <<0, 0>> ELSE <<par.i, par.j>>
\* the last entry of the log, marked with the clause it belongs to
vlTag(l, at) ==
  [l EXCEPT !.log = [@ EXCEPT ![Len(@)] = [at |-> at] @@ @]]

(* ---------------------------------------------------------------------- *)
(* evalVirtualComplete                                                     *)
(* ---------------------------------------------------------------------- *)
ir == getRules(prog.a, prog.b, cur.ref, prog.earlyExit)
key == vcKey(cur.ref, cur.arg)

evalValue ==
  /\ Running("evalValue", "start")
  /\ IF key \in DOMAIN vcTop
     THEN /\ hits' = hits + 1
          /\ misses' = misses
          /\ vlog' = vlAdd(vlog, key, "hit", vcTop[key], 0, frames[cur.e])
          /\ IF vcTop[key] = NoTerm
             THEN /\ stack' = ReturnFrom(stack)
                  /\ ret' = NoErr
                  /\ ev' = [NoEvent EXCEPT !.op = "evalValue"]
             ELSE /\ stack' = CallFrom(stack, "tail",
                                       InvokeTerm(cur.iter, cur.e, vcTop[key]))
                  /\ UNCHANGED <<ret, ev, withStacks, saves>>
     ELSE /\ misses' = misses + 1
          /\ vlog' = vlAdd(vlog, key, "miss", NoTerm, 0, frames[cur.e])
          /\ stack' = [stack EXCEPT ![top].pc = "rules", ![top].i = 1,
                                    ![top].gid = Len(vlog.log) + 1]
          /\ UNCHANGED <<hits, ret, ev, withStacks, saves>>
  /\ UNCHANGED <<side, prog, frames, retTerm, queryIDFact, virtualCache, results, withStacks, saves>>

\* a faulty variant: no negative entry is put
neverUndefined(prev) == FALSE
\* evalValue after the rules: `prev == nil`, the negative entry is put
stillUndefined(prev) == prev = NoTerm
\* the loop over ir.Rules (j = 0) and each rule's else chain (j > 0)
\* a faulty variant: the default rule is evaluated whenever there is one
defaultAlways(rs, prev) == rs.Default # NoRule
\* if e.ir.Default != nil && prev == nil
defaultDue(rs, prev) == rs.Default # NoRule /\ prev = NoTerm

evalValueRules ==
  /\ Running("evalValue", "rules")
  /\ IF cur.i <= Len(ir.Rules)
     THEN /\ stack' = CallFrom(stack, "ruled",
                [Act("evalValueRule", cur.e, cur.iter)
                   EXCEPT !.rule = IF cur.j = 0 THEN ir.Rules[cur.i]
                                   ELSE ir.Else[cur.i][cur.j],
                          !.ref = cur.ref, !.prev = cur.prev,
                          !.findOne = cur.findOne, !.gid = cur.gid])
          /\ UNCHANGED <<ret, virtualCache, vlog, ev>>
     ELSE IF defaultDue(ir, cur.prev)
     THEN /\ stack' = CallFrom(stack, "defaulted",
                [Act("evalValueRule", cur.e, cur.iter)
                   EXCEPT !.rule = ir.Default, !.ref = cur.ref,
                          !.prev = cur.prev, !.findOne = cur.findOne,
                          !.gid = cur.gid])
          /\ UNCHANGED <<ret, virtualCache, vlog, ev>>
     ELSE /\ virtualCache' = IF stillUndefined(cur.prev)
                             THEN vcPut(virtualCache, key, NoTerm)
                             ELSE virtualCache
          /\ vlog' = vlEnd(IF stillUndefined(cur.prev)
                           THEN vlAdd(vlog, key, "put", NoTerm, cur.gid, frames[cur.e])
                           ELSE vlog,
                           key, cur.gid, frames[cur.e],
                           suppressEarlyExit(cur.deferredEe), cur.gvals)
          /\ stack' = ReturnFrom(stack)
          /\ ret' = suppressEarlyExit(cur.deferredEe)
          /\ ev' = [NoEvent EXCEPT !.op = "evalValue", !.vals = cur.gvals,
                                   !.err = suppressEarlyExit(cur.deferredEe)]
  /\ UNCHANGED <<side, prog, frames, retTerm, queryIDFact, hits, misses, results, withStacks, saves>>

evalValueRuled ==
  /\ Running("evalValue", "ruled")
  /\ IF ret # NoErr /\ ~IsDeferredEarlyExit(ret)
     THEN /\ stack' = ReturnFrom(stack)
          /\ ret' = suppressEarlyExit(ret)
          /\ ev' = [NoEvent EXCEPT !.op = "evalValue", !.vals = cur.gvals,
                                   !.err = suppressEarlyExit(ret)]
          /\ vlog' = vlEnd(vlog, key, cur.gid, frames[cur.e],
                           suppressEarlyExit(ret), cur.gvals)
     ELSE /\ LET dee == IF ret # NoErr /\ cur.deferredEe = NoErr
                        THEN ret ELSE cur.deferredEe
             IN IF retTerm = NoTerm /\ cur.j < Len(ir.Else[cur.i])
                THEN stack' = [stack EXCEPT ![top].pc = "rules",
                                            ![top].deferredEe = dee,
                                            ![top].j = @ + 1]
                ELSE stack' = [stack EXCEPT ![top].pc = "rules",
                                            ![top].deferredEe = dee,
                                            ![top].prev = IF retTerm # NoTerm
                                                          THEN retTerm ELSE @,
                                            ![top].i = @ + 1, ![top].j = 0]
          /\ UNCHANGED <<ret, ev, withStacks, saves, vlog>>
  /\ UNCHANGED <<side, prog, frames, retTerm, queryIDFact, virtualCache, hits, misses, results, withStacks, saves>>

evalValueDefaulted ==
  /\ Running("evalValue", "defaulted")
  /\ stack' = ReturnFrom(stack)
  /\ ret' = suppressEarlyExit(ret)
  /\ ev' = [NoEvent EXCEPT !.op = "evalValue", !.vals = cur.gvals,
                           !.err = suppressEarlyExit(ret)]
  /\ vlog' = vlEnd(vlog, key, cur.gid, frames[cur.e], suppressEarlyExit(ret),
                   cur.gvals)
  /\ UNCHANGED <<side, prog, frames, retTerm, queryIDFact, virtualCache, hits, misses, results, withStacks, saves>>

evalValueRule ==
  /\ Running("evalValueRule", "start")
  /\ LET c == Len(frames) + 1 IN
     /\ frames' = Append(frames, [child(frames[cur.e], cur.rule.body)
                                    EXCEPT !.findOne = cur.findOne])
     /\ stack' = CallFrom([stack EXCEPT ![top].child = c], "evaluated",
                          Act("evalExpr", c, [k |-> "valueRuleIter", env |-> top]))
  /\ queryIDFact' = queryIDFact + 1
  /\ vlog' = vlTag(vlAdd(vlog, vcKey(cur.ref, NoTerm), "body", NoTerm, cur.gid,
                         frames[cur.e]),
                   clauseAt(stack[top - 1]))
  /\ UNCHANGED <<side, prog, ret, retTerm, virtualCache, hits, misses, results, ev, withStacks, saves>>

\* a faulty variant: a second value passes for a duplicate of the first
valueRuleNoConflict(prev, res) == NoErr
\* the rule body's iterator when an earlier rule gave prev: a different value
\* is a conflict
valueRuleConflict(prev, res) ==
  IF res # prev THEN <<"completeDocConflict">> ELSE NoErr

\* a faulty variant: no rule is taken to have given a value before
valueRuleFirst(prev) == FALSE
\* evalValueRule's iterator: prev != nil
valueRuleSeen(prev) == prev # NoTerm
\* the iterator evalValueRule gives the rule body
valueRuleIter ==
  /\ Running("valueRuleIter", "start")
  /\ LET a == stack[cur.env]
         res == Plug(a.rule.head, frames[a.child])
         s1 == [stack EXCEPT ![cur.env].result = res,
                             ![cur.env].gcalls = @ + 1,
                             ![cur.env - 1].gvals = @ \cup {res}]
     IN IF valueRuleSeen(a.prev)
        THEN /\ stack' = ReturnFrom(s1)
             /\ ret' = valueRuleConflict(a.prev, res)
             /\ UNCHANGED <<virtualCache, vlog>>
        ELSE /\ virtualCache' = vcPut(virtualCache, vcKey(a.ref, NoTerm), res)
             /\ vlog' = vlTag(vlAdd(vlog, vcKey(a.ref, NoTerm), "put", res,
                                    a.gid, frames[a.child]),
                              clauseAt(stack[cur.env - 1]))
             /\ stack' = CallFrom([s1 EXCEPT ![cur.env].prev = res], "tail",
                                  InvokeTerm(a.iter, a.e, res))
             /\ UNCHANGED ret
  /\ UNCHANGED <<side, prog, frames, retTerm, queryIDFact, hits, misses, results, ev, withStacks, saves>>

evalValueRuleEvaluated ==
  /\ Running("evalValueRule", "evaluated")
  /\ frames' = SubSeq(frames, 1, cur.child - 1)
  /\ retTerm' = cur.result
  /\ stack' = ReturnFrom(stack)
  /\ UNCHANGED <<side, prog, ret, queryIDFact, virtualCache, hits, misses, results, ev, withStacks, saves, vlog>>

(* ---------------------------------------------------------------------- *)
(* evalFunc                                                                *)
(* ---------------------------------------------------------------------- *)
Captured(out) == out # NoTerm
\* unify of a call's output term with a value
Unifies(out, v) == out = FreshVar \/ out = v

\* a call of a data function: evalCall -> evalFunc.eval -> evalFunc.evalValue
\* and, for a function mocked by a value, evalCall -> evalCallValue
evalStepCall ==
  /\ Running("evalStep", "start")
  /\ ~expr.neg /\ expr.k = "call"
  /\ LET mock == mockGet(functionMocks, expr.rule) IN
     IF mock # NoTerm
     THEN IF IF Captured(expr.out) THEN Unifies(expr.out, mock)
             ELSE mock # Bool(FALSE)
          THEN /\ stack' = CallFrom(stack, "tail",
                      Invoke([k |-> "stepIter", env |-> top], cur.e))
               /\ ret' = ret
          ELSE /\ stack' = ReturnFrom(stack)
               /\ ret' = NoErr
     ELSE /\ stack' = CallFrom(stack, "tail",
             [Act("evalFunc_evalValue", cur.e, [k |-> "stepIter", env |-> top])
               EXCEPT !.ref = expr.rule, !.arg = expr.arg, !.out = expr.out,
                      !.findOne = getRules(prog.a, prog.b, expr.rule, prog.earlyExit).EarlyExit])
          /\ ret' = ret
  /\ UNCHANGED <<side, prog, frames, retTerm, queryIDFact, virtualCache, hits, misses, results, ev, withStacks, saves, vlog>>

\* the iterator evalStep gives evalCall and evalEvery.eval:
\* func() error { return iter(e) }
stepIter ==
  /\ Running("stepIter", "start")
  /\ stack' = CallFrom(stack, "tail",
                       Invoke(stack[cur.env].iter, stack[cur.env].e))
  /\ UNCHANGED <<side, prog, frames, ret, retTerm, queryIDFact, virtualCache, hits, misses, results, ev, withStacks, saves, vlog>>

funcEvent(a, err) ==
  [NoEvent EXCEPT !.op = "evalFunc", !.vals = a.gvals, !.calls = a.gcalls,
                  !.sols = a.gsols,
                  !.default = a.gdefault, !.err = err, !.out = a.out]

\* a faulty variant: the cached term is never used
cacheNeverHit(cached) == FALSE
\* evalFunc.evalCache: `cached != nil`
cacheHit(cached) == cached # NoTerm

\* evalFunc.evalValue up to the rule loop: evalFunc.evalCache
evalFunc_evalValue ==
  /\ Running("evalFunc_evalValue", "start")
  /\ IF prog.partial
     THEN /\ stack' = [stack EXCEPT ![top].pc = "rules", ![top].i = 1]
          /\ UNCHANGED <<hits, misses, vlog, ret>>
     ELSE IF cacheHit(vcGet(virtualCache, key))
     THEN /\ hits' = hits + 1
          /\ misses' = misses
          /\ vlog' = vlAdd(vlog, key, "hit", vcTop[key], 0, frames[cur.e])
          /\ IF IF Captured(cur.out) THEN Unifies(cur.out, vcTop[key])
                ELSE vcTop[key] # Bool(FALSE)
             THEN /\ stack' = CallFrom(stack, "tail", Invoke(cur.iter, cur.e))
                  /\ ret' = ret
             ELSE /\ stack' = ReturnFrom(stack)
                  /\ ret' = NoErr
     ELSE /\ misses' = misses + 1
          /\ hits' = hits
          /\ vlog' = vlAdd(vlog, key, "miss", NoTerm, 0, frames[cur.e])
          /\ stack' = [stack EXCEPT ![top].pc = "rules", ![top].i = 1,
                                    ![top].cacheKey = TRUE,
                                    ![top].gid = Len(vlog.log) + 1]
          /\ ret' = ret
  /\ UNCHANGED <<side, prog, frames, retTerm, queryIDFact, virtualCache, results, ev, withStacks, saves>>

evalFunc_evalValueRules ==
  /\ Running("evalFunc_evalValue", "rules")
  /\ IF cur.i <= Len(ir.Rules)
     THEN /\ stack' = CallFrom(stack, "ruled",
                [Act("evalOneRule", cur.e, cur.iter)
                   EXCEPT !.rule = IF cur.j = 0 THEN ir.Rules[cur.i]
                                   ELSE ir.Else[cur.i][cur.j],
                          !.ref = cur.ref, !.arg = cur.arg, !.out = cur.out,
                          !.cacheKey = cur.cacheKey, !.prev = cur.prev,
                          !.findOne = cur.findOne, !.gid = cur.gid])
          /\ UNCHANGED <<ret, ev, withStacks, saves>>
     ELSE IF ir.Default # NoRule /\ cur.prev = NoTerm
     THEN /\ stack' = CallFrom([stack EXCEPT ![top].gdefault = TRUE], "defaulted",
                [Act("evalOneRule", cur.e, cur.iter)
                   EXCEPT !.rule = ir.Default, !.ref = cur.ref,
                          !.arg = cur.arg, !.out = cur.out,
                          !.cacheKey = cur.cacheKey, !.prev = cur.prev,
                          !.findOne = cur.findOne, !.gid = cur.gid])
          /\ UNCHANGED <<ret, ev, withStacks, saves>>
     ELSE /\ stack' = ReturnFrom(stack)
          /\ ret' = suppressEarlyExit(cur.deferredEe)
          /\ ev' = funcEvent(cur, suppressEarlyExit(cur.deferredEe))
  /\ UNCHANGED <<side, prog, frames, retTerm, queryIDFact, virtualCache, hits, misses, results, withStacks, saves, vlog>>

evalFunc_evalValueRuled ==
  /\ Running("evalFunc_evalValue", "ruled")
  /\ IF ret # NoErr /\ ~IsDeferredEarlyExit(ret)
     THEN /\ stack' = ReturnFrom(stack)
          /\ ret' = suppressEarlyExit(ret)
          /\ ev' = funcEvent(cur, suppressEarlyExit(ret))
     ELSE /\ LET outerEe == IF ret # NoErr /\ cur.deferredEe = NoErr
                            THEN ret ELSE cur.deferredEe
             IN IF retTerm = NoTerm /\ cur.j < Len(ir.Else[cur.i])
                THEN stack' = [stack EXCEPT ![top].pc = "rules",
                                            ![top].deferredEe = outerEe,
                                            ![top].j = @ + 1]
                ELSE stack' = [stack EXCEPT ![top].pc = "rules",
                                            ![top].deferredEe = outerEe,
                                            ![top].prev = IF retTerm # NoTerm
                                                          THEN retTerm ELSE @,
                                            ![top].i = @ + 1, ![top].j = 0]
          /\ UNCHANGED <<ret, ev, withStacks, saves>>
  /\ UNCHANGED <<side, prog, frames, retTerm, queryIDFact, virtualCache, hits, misses, results, withStacks, saves, vlog>>

evalFunc_evalValueDefaulted ==
  /\ Running("evalFunc_evalValue", "defaulted")
  /\ stack' = ReturnFrom(stack)
  /\ ret' = suppressEarlyExit(ret)
  /\ ev' = funcEvent(cur, suppressEarlyExit(ret))
  /\ UNCHANGED <<side, prog, frames, retTerm, queryIDFact, virtualCache, hits, misses, results, withStacks, saves, vlog>>

\* child.biunifyTerms(e.terms[1:], args, ...): the call's argument against the
\* head's parameter and, when the output is captured, the call's output
\* against a ground head value
headUnifies(rule, arg, out) ==
  /\ rule.args = NoTerm \/ rule.args = arg
  /\ (Captured(out) /\ rule.head.k = "const") => Unifies(out, rule.head.v)

evalOneRule ==
  /\ Running("evalOneRule", "start")
  /\ queryIDFact' = queryIDFact + 1
  /\ IF headUnifies(cur.rule, cur.arg, cur.out)
     THEN LET c == Len(frames) + 1 IN
          /\ frames' = Append(frames, [child(frames[cur.e], cur.rule.body)
                                         EXCEPT !.findOne = cur.findOne,
                                                !.bindings = cur.arg])
          /\ stack' = CallFrom([stack EXCEPT ![top].child = c], "evaluated",
                               Act("evalExpr", c, [k |-> "oneRuleIter", env |-> top]))
          /\ vlog' = vlAdd(vlog, vcKey(cur.ref, cur.arg), "body", NoTerm,
                           cur.gid, frames[cur.e])
          /\ UNCHANGED <<ret, retTerm>>
     ELSE /\ stack' = ReturnFrom(stack)
          /\ ret' = NoErr
          /\ retTerm' = NoTerm
          /\ UNCHANGED <<frames, vlog>>
  /\ UNCHANGED <<side, prog, virtualCache, hits, misses, results, ev, withStacks, saves>>

\* a faulty variant: a second value passes for a duplicate of the first
oneRuleNoConflict(prev, res) == NoErr
\* the rule body's iterator when an earlier rule gave prev: a different value
\* is a conflict
oneRuleConflict(prev, res) ==
  IF prev # res THEN <<"functionConflict">> ELSE NoErr

\* the iterator evalOneRule gives the rule body
oneRuleIter ==
  /\ Running("oneRuleIter", "start")
  /\ LET a == stack[cur.env]
         res == Plug(a.rule.head, frames[a.child])
         dflt == stack[cur.env - 1].pc = "defaulted"
         s1 == [stack EXCEPT ![cur.env].result = res,
                             ![cur.env - 1].gvals =
                                 IF dflt THEN @ ELSE @ \cup {res},
                             ![cur.env - 1].gsols =
                                 IF dflt THEN @ ELSE @ + 1]
     IN IF Captured(a.out) /\ ~Unifies(a.out, res)
        THEN \* the body's binding of the head variable fails
             /\ stack' = ReturnFrom(stack)
             /\ ret' = NoErr
             /\ UNCHANGED <<virtualCache, vlog>>
        ELSE /\ virtualCache' = IF a.cacheKey
                                THEN vcPut(virtualCache, vcKey(a.ref, a.arg), res)
                                ELSE virtualCache
             /\ vlog' = IF a.cacheKey
                        THEN vlAdd(vlog, vcKey(a.ref, a.arg), "put", res, a.gid,
                                   frames[a.child])
                        ELSE vlog
             /\ IF ~Captured(a.out) /\ res = Bool(FALSE)
                THEN /\ stack' = ReturnFrom([s1 EXCEPT ![cur.env].prev = res])
                     /\ ret' = IF a.prev # NoTerm
                               THEN oneRuleConflict(a.prev, res) ELSE NoErr
                ELSE IF ~prog.partial /\ a.prev # NoTerm
                THEN /\ stack' = ReturnFrom(s1)
                     /\ ret' = oneRuleConflict(a.prev, res)
                ELSE /\ stack' = CallFrom(
                          [s1 EXCEPT ![cur.env].prev = res,
                                     ![cur.env - 1].gcalls = @ + 1],
                          "tail", Invoke(a.iter, a.e))
                     /\ ret' = ret
  /\ UNCHANGED <<side, prog, frames, retTerm, queryIDFact, hits, misses, results, ev, withStacks, saves>>

evalOneRuleEvaluated ==
  /\ Running("evalOneRule", "evaluated")
  /\ frames' = SubSeq(frames, 1, cur.child - 1)
  /\ retTerm' = cur.result
  /\ stack' = ReturnFrom(stack)
  /\ UNCHANGED <<side, prog, ret, queryIDFact, virtualCache, hits, misses, results, ev, withStacks, saves, vlog>>

(* ---------------------------------------------------------------------- *)
(* evalTerm.enumerate                                                      *)
(* ---------------------------------------------------------------------- *)
\* x = dom[_]: unify -> biunifyRef -> evalTerm.enumerate
evalStepEnumerate ==
  /\ Running("evalStep", "start")
  /\ ~expr.neg /\ expr.k = "gen"
  /\ stack' = CallFrom(stack, "tail",
                       [Act("enumerate", cur.e, cur.iter)
                          EXCEPT !.i = 1, !.prev = frames[cur.e].bindings])
  /\ UNCHANGED <<side, prog, frames, ret, retTerm, queryIDFact, virtualCache, hits,
                 misses, withStacks, results, ev, saves, vlog>>

\* one turn of the loop over the array: bind, run the iterator
enumerate ==
  /\ Running("enumerate", "start")
  /\ IF cur.i <= Len(expr.dom)
     THEN /\ frames' = [frames EXCEPT ![cur.e].bindings = expr.dom[cur.i]]
          /\ stack' = CallFrom(stack, "iterated", Invoke(cur.iter, cur.e))
          /\ ret' = ret
     ELSE /\ frames' = frames
          /\ stack' = ReturnFrom(stack)
          /\ ret' = cur.deferredEe
  /\ UNCHANGED <<side, prog, retTerm, queryIDFact, virtualCache, hits, misses,
                 withStacks, results, ev, saves, vlog>>

\* undo the binding; a deferred early exit is kept for the end of the loop
enumerateIterated ==
  /\ Running("enumerate", "iterated")
  /\ frames' = [frames EXCEPT ![cur.e].bindings = cur.prev]
  /\ IF ret # NoErr /\ ~IsDeferredEarlyExit(ret)
     THEN /\ stack' = ReturnFrom(stack)
          /\ ret' = ret
     ELSE /\ stack' = [stack EXCEPT
                          ![top].pc = "start", ![top].i = @ + 1,
                          ![top].deferredEe = IF ret # NoErr /\ @ = NoErr
                                              THEN ret ELSE @]
          /\ ret' = ret
  /\ UNCHANGED <<side, prog, retTerm, queryIDFact, virtualCache, hits, misses,
                 withStacks, results, ev, saves, vlog>>

(* ---------------------------------------------------------------------- *)
(* evalEvery                                                               *)
(* ---------------------------------------------------------------------- *)
\* a faulty variant: every value is taken for a collection
isAnyValue(domk) == TRUE
isIterableValue(domk) == domk \in {"array", "object", "set"}

evalStepEvery ==
  /\ Running("evalStep", "start")
  /\ ~expr.neg /\ expr.k = "every"
  /\ stack' = CallFrom(stack, "tail",
                       Act("evalEvery", cur.e, [k |-> "stepIter", env |-> top]))
  /\ UNCHANGED <<side, prog, frames, ret, retTerm, queryIDFact, virtualCache, hits,
                 misses, withStacks, results, ev, saves, vlog>>

everyEvent(a, calls, err) ==
  [NoEvent EXCEPT !.op = "evalEvery", !.calls = calls, !.err = err,
                  !.iterable = isIterableValue(frames[a.e].query[frames[a.e].index + 1].domk),
                  !.dones = a.gdone, !.bodyErr = a.gbodyErr,
                  !.domk = frames[a.e].query[frames[a.e].index + 1].domk,
                  !.n = Len(frames[a.e].query[frames[a.e].index + 1].dom)]

evalEvery ==
  /\ Running("evalEvery", "start")
  /\ IF ~isIterableValue(expr.domk)
     THEN /\ stack' = ReturnFrom(stack)
          /\ ret' = NoErr
          /\ ev' = everyEvent(cur, 0, NoErr)
          /\ UNCHANGED <<frames, queryIDFact, saves>>
     ELSE LET domain == Len(frames) + 1 IN
          /\ frames' = Append(frames, closure(frames[cur.e], <<Gen(expr.dom)>>))
          /\ queryIDFact' = queryIDFact + 1
          /\ stack' = CallFrom([stack EXCEPT ![top].child = domain], "enumerated",
                               Act("evalExpr", domain, [k |-> "everyIter", env |-> top]))
          /\ UNCHANGED <<ret, ev, saves>>
  /\ UNCHANGED <<side, prog, retTerm, virtualCache, hits, misses, withStacks, results, saves, vlog>>

\* the iterator evalEvery gives the domain's generator
everyIter ==
  /\ Running("everyIter", "start")
  /\ LET a == stack[cur.env] IN
     IF ~a.all
     THEN /\ stack' = ReturnFrom(stack)
          /\ ret' = NoErr
          /\ UNCHANGED <<frames, queryIDFact, saves>>
     ELSE LET body == Len(frames) + 1 IN
          /\ frames' = Append(frames,
                [closure(frames[cur.e], frames[a.e].query[frames[a.e].index + 1].body)
                   EXCEPT !.findOne = TRUE])
          /\ queryIDFact' = queryIDFact + 1
          /\ stack' = CallFrom([stack EXCEPT ![top].child = body], "bodied",
                               Act("evalExpr", body, [k |-> "everyDone", env |-> top]))
          /\ ret' = ret
  /\ UNCHANGED <<side, prog, retTerm, virtualCache, hits, misses, withStacks, results, ev, saves, vlog>>

\* the iterator the body gets: done = true
everyDone ==
  /\ Running("everyDone", "start")
  /\ stack' = ReturnFrom([stack EXCEPT ![cur.env].done = TRUE])
  /\ ret' = NoErr
  /\ UNCHANGED <<side, prog, frames, retTerm, queryIDFact, virtualCache, hits, misses,
                 withStacks, results, ev, saves, vlog>>

everyIterBodied ==
  /\ Running("everyIter", "bodied")
  /\ frames' = SubSeq(frames, 1, cur.child - 1)
  /\ stack' = ReturnFrom(
       [stack EXCEPT ![cur.env].all = IF cur.done THEN @ ELSE FALSE,
                     ![cur.env].gdone = Append(@, cur.done),
                     ![cur.env].gbodyErr = @ \/ suppressEarlyExit(ret) # NoErr])
  /\ ret' = suppressEarlyExit(ret)
  /\ UNCHANGED <<side, prog, retTerm, queryIDFact, virtualCache, hits, misses,
                 withStacks, results, ev, saves, vlog>>

evalEveryEnumerated ==
  /\ Running("evalEvery", "enumerated")
  /\ IF ret # NoErr
     THEN /\ frames' = SubSeq(frames, 1, cur.child - 1)
          /\ stack' = ReturnFrom(stack)
          /\ ev' = everyEvent(cur, 0, ret)
     ELSE IF cur.all
     THEN /\ stack' = CallFrom(stack, "iterated", Invoke(cur.iter, cur.e))
          /\ UNCHANGED <<frames, ev, saves>>
     ELSE /\ frames' = SubSeq(frames, 1, cur.child - 1)
          /\ stack' = ReturnFrom(stack)
          /\ ev' = everyEvent(cur, 0, NoErr)
  /\ UNCHANGED <<side, prog, ret, retTerm, queryIDFact, virtualCache, hits, misses,
                 withStacks, results, saves, vlog>>

evalEveryIterated ==
  /\ Running("evalEvery", "iterated")
  /\ frames' = SubSeq(frames, 1, cur.child - 1)
  /\ stack' = ReturnFrom(stack)
  /\ ev' = everyEvent(cur, 1, ret)
  /\ UNCHANGED <<side, prog, ret, retTerm, queryIDFact, virtualCache, hits, misses,
                 withStacks, results, saves, vlog>>

(* ---------------------------------------------------------------------- *)
(* evalWith                                                                *)
(* ---------------------------------------------------------------------- *)
\* eval.evalWithPush on frame e of activation a (an evalWith activation that
\* holds the merged input and data, the mocks and the targets)
\* a faulty variant: the new scope starts with the entries of the one below
pushVirtualCacheCopy(vc) == Append(vc, vc[Len(vc)])
\* evalWithPush: e.virtualCache.Push()
pushVirtualCache(vc) == Append(vc, <<>>)

evalWithPush(a) ==
  /\ frames' = [frames EXCEPT
        ![a.e].input = IF a.input # NoTerm THEN a.input ELSE @,
        ![a.e].data = IF a.data # {} THEN a.data ELSE @]
  /\ comprehensionCache' = Append(comprehensionCache, {})
  /\ virtualCache' = pushVirtualCache(virtualCache)
  /\ vlog' = vlPush(vlog)
  /\ targetStack' =
       Append(targetStack,
              {w.name : w \in {a.withs[i] : i \in 1..Len(a.withs)}})
  /\ inliningControl' = Append(inliningControl, {})
  /\ functionMocks' =
       Append(functionMocks,
              {w \in {a.withs[i] : i \in 1..Len(a.withs)} : w.target = "func"})
\* a faulty variant: the replacement is returned in place of the input it
\* replaces
pushNewInput(a) == a.input
\* the values evalWithPush returns
pushOldInput(a) == IF a.input # NoTerm THEN frames[a.e].input ELSE NoTerm
pushOldData(a) == IF a.data # {} THEN frames[a.e].data ELSE {}

\* eval.evalWithPop(input, data) on frame e
evalWithPop(e, input, data) ==
  /\ inliningControl' = Front(inliningControl)
  /\ targetStack' = Front(targetStack)
  /\ virtualCache' = Front(virtualCache)
  /\ vlog' = vlPop(vlog)
  /\ comprehensionCache' = Front(comprehensionCache)
  /\ functionMocks' = Front(functionMocks)
  /\ frames' = [frames EXCEPT ![e].data = data, ![e].input = input]

evalWith ==
  /\ Running("evalWith", "start")
  /\ LET withs == expr.with
         a == [cur EXCEPT
                 !.withs = withs,
                 !.input = mergeInput(frames[cur.e].input,
                                      SelectTarget(withs, "input")),
                 !.data = mergeData(frames[cur.e].data,
                                    SelectTarget(withs, "data")),
                 !.gidx = frames[cur.e].index,
                 !.gpre = Context(frames[cur.e]),
                 !.gpush = 1]
     IN /\ evalWithPush(a)
        /\ stack' = CallFrom(
             [stack EXCEPT ![top] = [a EXCEPT !.oldInput = pushOldInput(a),
                                              !.oldData = pushOldData(a)]],
             "stepped", Act("evalStep", cur.e, [k |-> "withIter", env |-> top]))
  /\ UNCHANGED <<side, prog, ret, retTerm, queryIDFact, hits, misses, results, ev, saves>>

\* the iterator evalWith gives evalStep: pop, next(iter), push again
withIter ==
  /\ Running("withIter", "start")
  /\ LET a == stack[cur.env] IN
     /\ evalWithPop(a.e, a.oldInput, a.oldData)
     /\ stack' = CallFrom([stack EXCEPT ![cur.env].gpop = @ + 1], "back",
                          [Act("next", a.e, NoIter) EXCEPT !.env = cur.env])
  /\ UNCHANGED <<side, prog, ret, retTerm, queryIDFact, hits, misses, results, ev, saves>>

withIterBack ==
  /\ Running("withIter", "back")
  /\ LET a == stack[cur.env] IN
     /\ evalWithPush(a)
     /\ stack' = ReturnFrom([stack EXCEPT ![cur.env].oldInput = pushOldInput(a),
                                          ![cur.env].oldData = pushOldData(a),
                                          ![cur.env].gpush = @ + 1])
  /\ UNCHANGED <<side, prog, ret, retTerm, queryIDFact, hits, misses, results, ev, saves>>

evalWithStepped ==
  /\ Running("evalWith", "stepped")
  /\ evalWithPop(cur.e, cur.oldInput, cur.oldData)
  /\ stack' = ReturnFrom(stack)
  /\ ev' = [NoEvent EXCEPT
              !.op = "evalWith", !.err = ret, !.pre = cur.gpre,
              !.post = [Context(frames'[cur.e]) EXCEPT
                          !.functionMocks = functionMocks',
                          !.virtualCache = Len(virtualCache'),
                          !.comprehensionCache = Len(comprehensionCache'),
                          !.targetStack = Len(targetStack'),
                          !.inliningControl = Len(inliningControl')],
              !.push = cur.gpush, !.pop = cur.gpop + 1]
  /\ UNCHANGED <<side, prog, ret, retTerm, queryIDFact, hits, misses, results, saves>>

(* ---------------------------------------------------------------------- *)
(* Saving expressions (partial evaluation)                                 *)
(* ---------------------------------------------------------------------- *)
\* eval.unknown -> saveRequired: an expression must be saved when it carries
\* a `with` or mentions the unknown input document
\* a faulty variant: nothing is unknown
neverUnknown(x) == FALSE
unknown(x) ==
  prog.partial /\ (Len(x.with) > 0 \/ x.k \in {"inp", "ieq", "icall"})

\* saveStack.Push / Pop on the current query, PushQuery / PopQuery / Peek
ssPush(ss, x) == [ss EXCEPT ![Len(ss)] = Append(@, x)]
ssPop(ss) == [ss EXCEPT ![Len(ss)] = Front(@)]
ssPeek(ss) == ss[Len(ss)]

\* updateSavedMocks: the modifiers a saved expression keeps
updateSavedMocks(withs) == SelectSeq(withs, LAMBDA w : w.target # "func")

\* x = input, input = v and input > v with input unknown: biunify -> saveUnify
\* or evalCall -> saveCall; the expression is saved while the iterator runs
evalStepSave ==
  /\ Running("evalStep", "start")
  /\ ~expr.neg /\ expr.k \in {"inp", "ieq", "icall"} /\ unknown(expr)
  /\ saveStack' = ssPush(saveStack,
                         [expr EXCEPT !.with = updateSavedMocks(expr.with)])
  /\ stack' = CallFrom(stack, "saved", Invoke(cur.iter, cur.e))
  /\ UNCHANGED <<side, prog, frames, ret, retTerm, queryIDFact, virtualCache, hits,
                 misses, withStacks, saveSupport, partials, results, ev, vlog>>

evalStepSaved ==
  /\ Running("evalStep", "saved")
  /\ saveStack' = ssPop(saveStack)
  /\ stack' = ReturnFrom(stack)
  /\ UNCHANGED <<side, prog, frames, ret, retTerm, queryIDFact, virtualCache, hits,
                 misses, withStacks, saveSupport, partials, results, ev, vlog>>

\* input = v with input known: unify
evalStepInput ==
  /\ Running("evalStep", "start")
  /\ ~expr.neg /\ expr.k = "ieq" /\ ~unknown(expr)
  /\ IF frames[cur.e].input = expr.v
     THEN /\ stack' = CallFrom(stack, "tail", Invoke(cur.iter, cur.e))
          /\ ret' = ret
     ELSE /\ stack' = ReturnFrom(stack)
          /\ ret' = NoErr
  /\ UNCHANGED <<side, prog, frames, retTerm, queryIDFact, virtualCache, hits, misses,
                 withStacks, saves, results, ev, vlog>>

(* ---------------------------------------------------------------------- *)
(* evalBuiltin                                                             *)
(* ---------------------------------------------------------------------- *)
\* evalCall on a built-in none of whose operands is unknown
evalStepBuiltin ==
  /\ Running("evalStep", "start")
  /\ ~expr.neg /\ expr.k \in {"icall", "builtin"} /\ ~unknown(expr)
  /\ stack' = CallFrom(stack, "tail",
                       Act("evalBuiltin", cur.e, [k |-> "stepIter", env |-> top]))
  /\ UNCHANGED <<side, prog, frames, ret, retTerm, queryIDFact, virtualCache, hits,
                 misses, withStacks, saves, results, ev, vlog>>

\* what the built-in's implementation does with its operands
builtinFunc(x, input) ==
  IF x.k = "builtin" THEN x.rule
  ELSE IF input # NoTerm /\ input.n > x.v.n THEN "value" ELSE "false"

Halt(err) == <<"Halt">> \o err
IsHalt(err) == err # <<>> /\ err[1] = "Halt"

\* the callback evalBuiltin.eval gives the implementation: the iterator's
\* error is wrapped
builtinCallback(err) == IF err # NoErr THEN Halt(err) ELSE err

\* a faulty variant: the implementation's error is returned as it is
builtinReturned(err, errs) == [err |-> err, errs |-> errs]
\* evalBuiltin.eval on the implementation's return: a Halt is unwrapped,
\* any other error goes to the built-in errors
builtinResult(err, errs) ==
  IF err = NoErr THEN [err |-> NoErr, errs |-> errs]
  ELSE IF IsHalt(err) THEN [err |-> Tail(err), errs |-> errs]
  ELSE [err |-> NoErr, errs |-> Append(errs, err)]

builtinEvent(kind, iterErr, r) ==
  [NoEvent EXCEPT !.op = "evalBuiltin", !.kind = kind, !.iterErr = iterErr,
                  !.err = r.err, !.added = Len(r.errs) - Len(builtinErrors)]

evalBuiltin ==
  /\ Running("evalBuiltin", "start")
  /\ builtinCalls' = builtinCalls + 1
  /\ LET does == builtinFunc(expr, frames[cur.e].input) IN
     IF does = "value"
     THEN /\ stack' = CallFrom(stack, "called", Invoke(cur.iter, cur.e))
          /\ UNCHANGED <<ret, builtinErrors, ev>>
     ELSE LET err == CASE does = "error" -> <<"BuiltinErr">>
                       [] does = "halt" -> Halt(<<"Internal">>)
                       [] OTHER -> NoErr
              r == builtinResult(err, builtinErrors)
          IN /\ stack' = ReturnFrom(stack)
             /\ ret' = r.err
             /\ builtinErrors' = r.errs
             /\ ev' = builtinEvent(does, NoErr, r)
  /\ UNCHANGED <<subs, cancel, prog, frames, retTerm, queryIDFact, virtualCache,
                 hits, misses, withStacks, saves, results, vlog>>

\* the implementation returns what the callback returned
evalBuiltinCalled ==
  /\ Running("evalBuiltin", "called")
  /\ LET r == builtinResult(builtinCallback(ret), builtinErrors) IN
     /\ stack' = ReturnFrom(stack)
     /\ ret' = r.err
     /\ builtinErrors' = r.errs
     /\ ev' = builtinEvent("value", ret, r)
  /\ UNCHANGED <<subs, cancel, builtinCalls, prog, frames, retTerm, queryIDFact,
                 virtualCache, hits, misses, withStacks, saves, results, vlog>>

(* ---------------------------------------------------------------------- *)
(* evalNotPartial                                                          *)
(* ---------------------------------------------------------------------- *)
containsNestedRefOrCall(x) == x.k = "icall"
Size(queries) ==
  LET RECURSIVE prod(_)
      prod(qs) == IF qs = <<>> THEN 1 ELSE Len(qs[1]) * prod(Tail(qs))
  IN prod(queries)
canInlineNegation(queries) ==
  /\ \A i \in 1..Len(queries) : \A j \in 1..Len(queries[i]) :
        ~containsNestedRefOrCall(queries[i][j])
  /\ Size(queries) <= 16

\* the bodies complementedCartesianProduct hands to its iterator, in order
RECURSIVE complementedCartesianProduct(_)
complementedCartesianProduct(queries) ==
  IF queries = <<>> THEN <<<<>>>>
  ELSE LET rest == complementedCartesianProduct(Tail(queries))
           RECURSIVE over(_)
           over(j) ==
             IF j > Len(queries[1]) THEN <<>>
             ELSE [r \in 1..Len(rest) |->
                     <<[queries[1][j] EXCEPT !.neg = ~@]>> \o rest[r]] \o over(j + 1)
       IN over(1)

evalNotPartial ==
  /\ Running("evalNotPartial", "start")
  /\ LET c == Len(frames) + 1 IN
     /\ frames' = Append(frames, closure(frames[cur.e], <<ComplementNoWith(expr)>>))
     /\ queryIDFact' = queryIDFact + 1
     /\ saveStack' = Append(saveStack, <<>>)
     /\ stack' = CallFrom([stack EXCEPT ![top].child = c], "evaluated",
                          Act("evalExpr", c, [k |-> "notPartialIter", env |-> top]))
  /\ UNCHANGED <<side, prog, ret, retTerm, virtualCache, hits, misses, withStacks,
                 saveSupport, partials, results, ev, vlog>>

\* the iterator the negation's child gets: keep the query saved so far (copy
\* propagation leaves `true` for an empty one)
notPartialIter ==
  /\ Running("notPartialIter", "start")
  /\ stack' = ReturnFrom(
       [stack EXCEPT ![cur.env].savedQueries =
          Append(@, IF ssPeek(saveStack) = <<>> THEN <<Lit(Bool(TRUE))>>
                    ELSE ssPeek(saveStack))])
  /\ ret' = NoErr
  /\ UNCHANGED <<side, prog, frames, retTerm, queryIDFact, virtualCache, hits, misses,
                 withStacks, saves, results, ev, vlog>>

evalNotPartialEvaluated ==
  /\ Running("evalNotPartial", "evaluated")
  /\ saveStack' = Front(saveStack)
  /\ IF cur.savedQueries = <<>>
     THEN stack' = CallFrom(stack, "done", Invoke(cur.iter, cur.e))
     ELSE IF ~canInlineNegation(cur.savedQueries)
     THEN stack' = CallFrom(stack, "done",
                            [Act("evalNotPartialSupport", cur.e, cur.iter)
                               EXCEPT !.savedQueries = cur.savedQueries,
                                      !.child = cur.child])
     ELSE stack' = [stack EXCEPT
                      ![top].pc = "product", ![top].i = 1,
                      ![top].product = complementedCartesianProduct(cur.savedQueries)]
  /\ ret' = NoErr
  /\ UNCHANGED <<side, prog, frames, retTerm, queryIDFact, virtualCache, hits, misses,
                 withStacks, saveSupport, partials, results, ev, vlog>>

RECURSIVE ssPushAll(_, _, _)
ssPushAll(ss, xs, withs) ==
  IF xs = <<>> THEN ss
  ELSE ssPushAll(ssPush(ss, [xs[1] EXCEPT !.with = withs]), Tail(xs), withs)
RECURSIVE ssPopN(_, _)
ssPopN(ss, n) == IF n = 0 THEN ss ELSE ssPopN(ssPop(ss), n - 1)

\* one body of the product: saveInlinedNegatedExprs(q, iter(e))
evalNotPartialProduct ==
  /\ Running("evalNotPartial", "product")
  /\ IF cur.i <= Len(cur.product)
     THEN /\ saveStack' = ssPushAll(saveStack, cur.product[cur.i],
                                    updateSavedMocks(expr.with))
          /\ stack' = CallFrom(stack, "inlined", Invoke(cur.iter, cur.e))
          /\ UNCHANGED frames
     ELSE /\ saveStack' = saveStack
          /\ frames' = SubSeq(frames, 1, cur.child - 1)
          /\ stack' = ReturnFrom(stack)
  /\ ret' = NoErr
  /\ UNCHANGED <<side, prog, retTerm, queryIDFact, virtualCache, hits, misses,
                 withStacks, saveSupport, partials, results, ev, vlog>>

evalNotPartialInlined ==
  /\ Running("evalNotPartial", "inlined")
  /\ saveStack' = ssPopN(saveStack, Len(cur.product[cur.i]))
  /\ IF ret # NoErr
     THEN /\ frames' = SubSeq(frames, 1, cur.child - 1)
          /\ stack' = ReturnFrom(stack)
     ELSE /\ frames' = frames
          /\ stack' = [stack EXCEPT ![top].pc = "product", ![top].i = @ + 1]
  /\ UNCHANGED <<side, prog, ret, retTerm, queryIDFact, virtualCache, hits, misses,
                 withStacks, saveSupport, partials, results, ev, vlog>>

evalNotPartialDone ==
  /\ Running("evalNotPartial", "done")
  /\ frames' = SubSeq(frames, 1, cur.child - 1)
  /\ stack' = ReturnFrom(stack)
  /\ UNCHANGED <<side, prog, ret, retTerm, queryIDFact, virtualCache, hits, misses,
                 withStacks, saves, results, ev, vlog>>

\* evalNotPartialSupport: insert the support rules, save the reference to
\* them, and run e.next(iter)
evalNotPartialSupport ==
  /\ Running("evalNotPartialSupport", "start")
  /\ LET path == <<frames[cur.e].queryID, frames[cur.e].index,
                   frames[cur.child].queryID>> IN
     /\ saveSupport' = saveSupport \cup
          {[path |-> path, body |-> cur.savedQueries[i]] :
             i \in 1..Len(cur.savedQueries)}
     /\ saveStack' = ssPush(saveStack,
          [Support(path) EXCEPT !.neg = expr.neg,
                                !.with = updateSavedMocks(expr.with)])
  /\ stack' = CallFrom(stack, "saved",
                       [Act("next", cur.e, NoIter) EXCEPT !.env = top])
  /\ UNCHANGED <<side, prog, frames, ret, retTerm, queryIDFact, virtualCache, hits,
                 misses, withStacks, partials, results, ev, vlog>>

evalNotPartialSupportSaved ==
  /\ Running("evalNotPartialSupport", "saved")
  /\ saveStack' = ssPop(saveStack)
  /\ stack' = ReturnFrom(stack)
  /\ UNCHANGED <<side, prog, frames, ret, retTerm, queryIDFact, virtualCache, hits,
                 misses, withStacks, saveSupport, partials, results, ev, vlog>>

(* ---------------------------------------------------------------------- *)
(* evalNot                                                                 *)
(* ---------------------------------------------------------------------- *)
evalNot ==
  /\ Running("evalNot", "start")
  /\ IF unknown(expr)
     THEN /\ stack' = CallFrom(stack, "tail", Act("evalNotPartial", cur.e, cur.iter))
          /\ UNCHANGED <<frames, queryIDFact>>
     ELSE LET c == Len(frames) + 1 IN
          /\ frames' = Append(frames, closure(frames[cur.e], <<ComplementNoWith(expr)>>))
          /\ queryIDFact' = queryIDFact + 1
          /\ stack' = CallFrom([stack EXCEPT ![top].child = c], "evaluated",
                               Act("evalExpr", c, [k |-> "notDefined", env |-> top]))
  /\ UNCHANGED <<side, prog, ret, results, ev, retTerm, virtualCache, hits, misses, withStacks, saves, vlog>>

\* the iterator evalNot gives its child: child.defined = true; return nil
notDefined ==
  /\ Running("notDefined", "start")
  /\ frames' = [frames EXCEPT ![stack[cur.env].child].defined = TRUE]
  /\ stack' = ReturnFrom([stack EXCEPT ![cur.env].gsols = @ + 1])
  /\ ret' = NoErr
  /\ UNCHANGED <<side, prog, queryIDFact, results, ev, retTerm, virtualCache, hits, misses, withStacks, saves, vlog>>

evalNotEvaluated ==
  /\ Running("evalNot", "evaluated")
  /\ IF ret # NoErr
     THEN /\ frames' = SubSeq(frames, 1, cur.child - 1)
          /\ stack' = ReturnFrom(stack)
          /\ ret' = ret
          /\ ev' = [NoEvent EXCEPT !.op = "evalNot", !.sols = cur.gsols,
                                   !.err = ret, !.bodyErr = TRUE]
     ELSE IF ~frames[cur.child].defined
     THEN /\ stack' = CallFrom([stack EXCEPT ![top].gcalls = 1], "iterated",
                               Invoke(cur.iter, cur.e))
          /\ UNCHANGED <<frames, ret, ev, retTerm, virtualCache, hits, misses, withStacks, saves>>
     ELSE /\ frames' = SubSeq(frames, 1, cur.child - 1)
          /\ stack' = ReturnFrom(stack)
          /\ ret' = NoErr
          /\ ev' = [NoEvent EXCEPT !.op = "evalNot", !.sols = cur.gsols]
  /\ UNCHANGED <<side, prog, queryIDFact, results, retTerm, virtualCache, hits, misses, withStacks, saves, vlog>>

evalNotIterated ==
  /\ Running("evalNot", "iterated")
  /\ frames' = SubSeq(frames, 1, cur.child - 1)
  /\ stack' = ReturnFrom(stack)
  /\ ev' = [NoEvent EXCEPT !.op = "evalNot", !.sols = cur.gsols,
                           !.calls = cur.gcalls, !.err = ret]
  /\ UNCHANGED <<side, prog, ret, queryIDFact, results, retTerm, virtualCache, hits, misses, withStacks, saves, vlog>>

Done ==
  /\ Running("Run", "done")
  /\ stack' = <<>>
  /\ UNCHANGED <<side, prog, frames, ret, queryIDFact, results, ev, retTerm, virtualCache, hits, misses, withStacks, saves, vlog>>

Next ==
  \/ Run \/ result \/ Done
  \/ evalExpr \/ evalExprIterated \/ next \/ nextBack
  \/ evalStepNot \/ evalStepTerm \/ stepTerm \/ evalStepEquality \/ evalStepRef
  \/ evalValue \/ evalValueRules \/ evalValueRuled \/ evalValueDefaulted
  \/ evalValueRule \/ valueRuleIter \/ evalValueRuleEvaluated
  \/ evalStepCall \/ stepIter
  \/ evalFunc_evalValue \/ evalFunc_evalValueRules \/ evalFunc_evalValueRuled
  \/ evalFunc_evalValueDefaulted
  \/ evalOneRule \/ oneRuleIter \/ evalOneRuleEvaluated
  \/ evalWith \/ withIter \/ withIterBack \/ evalWithStepped
  \/ evalStepEnumerate \/ enumerate \/ enumerateIterated
  \/ evalStepSave \/ evalStepSaved \/ evalStepInput
  \/ evalStepBuiltin \/ evalBuiltin \/ evalBuiltinCalled
  \/ evalNotPartial \/ notPartialIter \/ evalNotPartialEvaluated
  \/ evalNotPartialProduct \/ evalNotPartialInlined \/ evalNotPartialDone
  \/ evalNotPartialSupport \/ evalNotPartialSupportSaved
  \/ evalStepEvery \/ evalEvery \/ everyIter \/ everyDone \/ everyIterBodied
  \/ evalEveryEnumerated \/ evalEveryIterated
  \/ evalNot \/ notDefined \/ evalNotEvaluated \/ evalNotIterated

Spec == Init /\ [][Next]_vars

(* ---------------------------------------------------------------------- *)
(* Cancellation                                                            *)
(* ---------------------------------------------------------------------- *)
\* the caller cancels the token, with or without an error in the context.
\* evalExpr is the token's only reader, so a cancellation takes effect at
\* an entry of evalExpr
Cancel ==
  /\ Running("evalExpr", "start")
  /\ cancel = "none"
  /\ cancel' \in {"cancelled", "ctx"}
  /\ UNCHANGED <<subs, builtinErrors, builtinCalls, prog, frames, stack, ret,
                 retTerm, queryIDFact, virtualCache, hits, misses, withStacks,
                 saves, results, ev, vlog>>

\* the queries run under cancellation: one policy
CancelPrograms ==
  {p \in Programs :
     p.partial \/ (p.a = Num(1) /\ p.b = Num(MaxVal) /\ p.input = Num(1))}

InitCancel ==
  /\ \E p \in CancelPrograms : Machine(p)
  /\ stack = <<Act("Run", 1, NoIter)>>
  /\ NoSubs

NextCancel == Next \/ Cancel

SpecCancel == InitCancel /\ [][NextCancel]_vars

(* ---------------------------------------------------------------------- *)
(* The reduction of a partial rule set's solutions, on its own             *)
(* ---------------------------------------------------------------------- *)
\* one turn of evalAllRulesNoCache's loop: the body's iterator reduces the
\* solution; an error ends the loop
reduceRule ==
  /\ red.i <= Len(red.rules) /\ ~red.err
  /\ LET r == reduce(red.rules[red.i], red.result, red.visitedRefs) IN
     red' = [red EXCEPT !.i = @ + 1, !.result = r.result, !.err = r.err,
                        !.visitedRefs = r.visitedRefs,
                        !.exists = Append(@, r.exists)]
  /\ UNCHANGED notRed

InitReduce ==
  /\ Idle
  /\ red \in {[NoReduce EXCEPT !.rules = <<x, y>>] : x, y \in Solutions}
  /\ OnlyRed

NextReduce == reduceRule

SpecReduce == InitReduce /\ [][NextReduce]_vars

(* ---------------------------------------------------------------------- *)
(* biunify, biunifyArraysRec and evalTerm.enumerate on their own           *)
(* ---------------------------------------------------------------------- *)
UTop == uni.stk[Len(uni.stk)]
UFront == SubSeq(uni.stk, 1, Len(uni.stk) - 1)
\* the activation that runs the iterator cont
Continue(cont) ==
  IF cont = 0 THEN UAct("iter", UNil, UNil, 0, 0, 0, 0)
  ELSE LET o == uni.stk[cont]
       IN UAct(o.fn, o.a, o.b, o.fa, o.fb, o.idx + 1, o.cont)
UCall(pc, act) ==
  Append([uni.stk EXCEPT ![Len(uni.stk)].pc = pc], act)
\* bind var (of frame fv) to t (of frame ft), then run the iterator
UBind(fv, var, t, ft) ==
  uni' = [uni EXCEPT
            !.b = bind(@, <<fv, var.n>>, t, ft), !.binds = @ + 1,
            !.stk = Append([@ EXCEPT ![Len(@)].pc = "bound",
                                     ![Len(@)].undo =
                                        <<undoEntry(uni.b, <<fv, var.n>>)>>],
                           Continue(UTop.cont))]
UIter == uni' = [uni EXCEPT !.stk = UCall("tail", Continue(UTop.cont))]
UFail == uni' = [uni EXCEPT !.stk = UFront, !.ret = NoErr]

\* a faulty variant: the binding is left in place
valuesKeep(b, u) == b
\* biunifyValues: undo.Undo() once the iterator has returned
valuesUndo(b, u) == Undo(b, u)

\* biunifyValues on two applied terms that are neither saved nor references
biunifyValues(a, fa, b, fb) ==
  IF a.k = "var" /\ b.k = "var"
  THEN IF fa = fb /\ a = b THEN UIter ELSE UBind(fa, a, b, fb)
  ELSE IF a.k = "var" THEN UBind(fa, a, b, fb)
  ELSE IF b.k = "var" THEN UBind(fb, b, a, fa)
  ELSE IF a = b THEN UIter ELSE UFail

\* a faulty variant: objects of any two sizes are unified key by key
objectsAnyLen(a, b) == FALSE
\* biunifyObjects: a.Len() != b.Len()
objectsLenDiffer(a, b) ==
  Cardinality(DOMAIN a.elems) # Cardinality(DOMAIN b.elems)
\* the keys iterator of an object: its keys in order
RECURSIVE KeysIterator(_)
KeysIterator(K) ==
  IF K = {} THEN <<>>
  ELSE LET lo == CHOOSE x \in K : \A y \in K : x <= y
       IN <<lo>> \o KeysIterator(K \ {lo})

\* biunify: apply both terms, then dispatch on their kinds
biunify ==
  /\ uni.stk # <<>> /\ UTop.fn = "biunify" /\ UTop.pc = "start"
  /\ LET A == apply(uni.b, UTop.a, UTop.fa)
         B == apply(uni.b, UTop.b, UTop.fb)
     IN CASE A.t.k = "var" -> biunifyValues(A.t, A.f, B.t, B.f)
          [] A.t.k = "num" ->
               IF B.t.k \in {"var", "num"}
               THEN biunifyValues(A.t, A.f, B.t, B.f) ELSE UFail
          [] A.t.k = "arr" ->
               IF B.t.k = "var" THEN biunifyValues(A.t, A.f, B.t, B.f)
               ELSE IF B.t.k = "arr"
               THEN IF Len(A.t.elems) # Len(B.t.elems) THEN UFail
                    ELSE uni' = [uni EXCEPT !.stk =
                           UCall("tail", UAct("biunifyArraysRec", A.t, B.t,
                                              A.f, B.f, 1, UTop.cont))]
               ELSE UFail
          [] A.t.k = "obj" ->
               IF B.t.k = "var" THEN biunifyValues(A.t, A.f, B.t, B.f)
               ELSE IF B.t.k = "obj"
               THEN IF objectsLenDiffer(A.t, B.t) THEN UFail
                    ELSE uni' = [uni EXCEPT !.stk =
                           UCall("tail", UAct("biunifyObjectsRec", A.t, B.t,
                                              A.f, B.f, 1, UTop.cont))]
               ELSE UFail
          [] OTHER -> UFail
  /\ UNCHANGED notUni

\* biunifyObjectsRec: the next key of a, looked up in b
biunifyObjectsRec ==
  /\ uni.stk # <<>> /\ UTop.fn = "biunifyObjectsRec" /\ UTop.pc = "start"
  /\ LET oki == KeysIterator(DOMAIN UTop.a.elems) IN
     IF UTop.idx > Len(oki)
     THEN UIter
     ELSE IF oki[UTop.idx] \notin DOMAIN UTop.b.elems
     THEN UFail
     ELSE uni' = [uni EXCEPT !.stk =
            UCall("tail", UAct("biunify", UTop.a.elems[oki[UTop.idx]],
                               UTop.b.elems[oki[UTop.idx]], UTop.fa, UTop.fb,
                               0, Len(uni.stk)))]
  /\ UNCHANGED notUni

biunifyArraysRec ==
  /\ uni.stk # <<>> /\ UTop.fn = "biunifyArraysRec" /\ UTop.pc = "start"
  /\ IF UTop.idx > Len(UTop.a.elems)
     THEN UIter
     ELSE uni' = [uni EXCEPT !.stk =
            UCall("tail", UAct("biunify", UTop.a.elems[UTop.idx],
                               UTop.b.elems[UTop.idx], UTop.fa, UTop.fb, 0,
                               Len(uni.stk)))]
  /\ UNCHANGED notUni

\* the caller's iterator: it sees the bindings and returns what it will
unifyIter ==
  /\ uni.stk # <<>> /\ UTop.fn = "iter"
  /\ uni' = [uni EXCEPT !.calls = @ + 1, !.seen = Append(@, uni.b),
                        !.ret = uni.plan[uni.calls + 1], !.stk = UFront]
  /\ UNCHANGED notUni

\* the call made by biunify or biunifyArraysRec has returned
unifyReturned ==
  /\ uni.stk # <<>>
  /\ UTop.fn \in {"biunify", "biunifyArraysRec", "biunifyObjectsRec"}
  /\ UTop.pc \in {"tail", "bound"}
  /\ uni' = [uni EXCEPT
               !.b = IF UTop.pc = "bound" THEN valuesUndo(@, UTop.undo[1])
                     ELSE @,
               !.undos = IF UTop.pc = "bound" THEN @ + 1 ELSE @,
               !.stk = UFront]
  /\ UNCHANGED notUni

\* evalTerm.enumerate on an array of UTop.idx.. elements, the reference's
\* operand an unbound variable: one turn of the loop
unifyEnumerate ==
  /\ uni.stk # <<>> /\ UTop.fn = "enumerate" /\ UTop.pc = "start"
  /\ IF UTop.idx <= Len(UTop.a.elems)
     THEN LET B == apply(uni.b, UTop.b, UTop.fb)
          IN UBind(B.f, B.t, UNum(UTop.idx - 1), B.f)
     ELSE uni' = [uni EXCEPT !.stk = UFront, !.ret = UTop.dee]
  /\ UNCHANGED notUni

\* undo, then handleErr: a deferred early exit is kept for the end
unifyEnumerated ==
  /\ uni.stk # <<>> /\ UTop.fn = "enumerate" /\ UTop.pc = "bound"
  /\ LET b == valuesUndo(uni.b, UTop.undo[1]) IN
     IF uni.ret # NoErr /\ ~IsDeferredEarlyExit(uni.ret)
     THEN uni' = [uni EXCEPT !.b = b, !.undos = @ + 1, !.stk = UFront]
     ELSE uni' = [uni EXCEPT
                    !.b = b, !.undos = @ + 1,
                    !.stk = [@ EXCEPT ![Len(@)].pc = "start",
                                      ![Len(@)].idx = @ + 1,
                                      ![Len(@)].undo = <<>>,
                                      ![Len(@)].dee =
                                         IF uni.ret # NoErr /\ @ = NoErr
                                         THEN uni.ret ELSE @]]
  /\ UNCHANGED notUni

\* what the iterator returns on its first and second call
Plans == [1..2 -> {NoErr, <<"D">>, <<"Internal">>}]
\* the frames before the call: variable 2 of frame 1 may be bound
Bound0 ==
  {[uk \in UKeys |-> Unbound]}
  \cup {[[uk \in UKeys |-> Unbound] EXCEPT ![<<1, 2>>] = [t |-> UNum(n), f |-> 1]] :
          n \in 1..MaxVal}
InitUnify ==
  /\ Idle
  /\ OnlyUni
  /\ \E a, b \in UTerms, same \in BOOLEAN, b0 \in Bound0, plan \in Plans,
        enum \in BOOLEAN :
       /\ enum => (a.k = "arr" /\ b = UVar(1) /\ same)
       /\ ~enum => plan[2] = NoErr
       /\ uni = [NoUnify EXCEPT
                   !.b = b0, !.b0 = b0, !.plan = plan, !.a = a, !.b2 = b,
                   !.same = same,
                   !.stk = <<UAct(IF enum THEN "enumerate" ELSE "biunify",
                                  a, b, 1, IF same THEN 1 ELSE 2,
                                  IF enum THEN 1 ELSE 0, 0)>>]

NextUnify ==
  \/ biunify \/ biunifyArraysRec \/ unifyIter \/ unifyReturned
  \/ unifyEnumerate \/ unifyEnumerated

SpecUnify == InitUnify /\ [][NextUnify]_vars

(* ---------------------------------------------------------------------- *)
(* unify(a, b), then unify(b, a) from the same frames                      *)
(* ---------------------------------------------------------------------- *)
\* the name Plug gives an unbound variable
UName(uk) == 10 * uk[1] + uk[2]
\* variables unified with each other share one unbound variable; which of
\* them it is depends on the side that was bound, so it is named after the
\* least of them
Alias(b, c) ==
  LET cls == {UName(uk) : uk \in {x \in UKeys : UPlug(b, UVar(x[2]), x[1]) = UVar(c)}}
  IN CHOOSE x \in cls : \A y \in cls : x <= y
Aliased(b, t) ==
  IF t.k = "var" THEN UVar(Alias(b, t.n))
  ELSE IF t.k \in {"arr", "obj"}
  THEN [t EXCEPT !.elems =
          [i \in DOMAIN t.elems |->
             IF t.elems[i].k = "var" THEN UVar(Alias(b, t.elems[i].n))
             ELSE t.elems[i]]]
  ELSE t
\* what a solution binds every variable of both frames to
Solution(b) == [uk \in UKeys |-> Aliased(b, UPlug(b, UVar(uk[2]), uk[1]))]
\* what a call of unify came to: its solutions, in order, and its error
Outcome == [calls |-> uni.calls, ret |-> uni.ret,
            sols |-> [i \in 1..Len(uni.seen) |-> Solution(uni.seen[i])]]

\* the first call has returned: the second is made with the operands
\* exchanged
unifySwap ==
  /\ uni.phase = 1 /\ uni.stk = <<>>
  /\ uni' = [uni EXCEPT
               !.phase = 2, !.first = Outcome, !.b = uni.b0, !.ret = NoErr,
               !.calls = 0, !.seen = <<>>,
               !.stk = <<UAct("biunify", uni.b2, uni.a,
                              IF uni.same THEN 1 ELSE 2, 1, 0, 0)>>]
  /\ UNCHANGED notUni

\* a variable is not unified with a term that holds it: the binding would
\* be cyclic, with no finite plugged value
Occurs(a, b) ==
  /\ a.k = "var"
  /\ \E i \in DOMAIN b.elems : b.elems[i] = a
SymBound0 ==
  {[uk \in UKeys |-> Unbound],
   [[uk \in UKeys |-> Unbound] EXCEPT ![<<1, 2>>] = [t |-> UNum(1), f |-> 1]]}
SymPlans == {<<NoErr>>, <<<<"Internal">>>>}
InitSym ==
  /\ Idle
  /\ OnlyUni
  /\ \E a, b \in SymTerms, same \in BOOLEAN, b0 \in SymBound0,
        plan \in SymPlans :
       /\ same => (~Occurs(a, b) /\ ~Occurs(b, a))
       /\ uni = [NoUnify EXCEPT
                   !.b = b0, !.b0 = b0, !.plan = plan, !.a = a, !.b2 = b,
                   !.same = same, !.phase = 1,
                   !.stk = <<UAct("biunify", a, b, 1,
                                  IF same THEN 1 ELSE 2, 0, 0)>>]

NextSym ==
  \/ biunify \/ biunifyArraysRec \/ biunifyObjectsRec \/ unifyIter
  \/ unifyReturned \/ unifySwap

SpecSym == InitSym /\ [][NextSym]_vars

(* ---------------------------------------------------------------------- *)
(* evalStep with and without tracing                                       *)
(* ---------------------------------------------------------------------- *)
\* inliningControl.Disabled: x is on one of the disable lists
Disabled(ic, x) == \E i \in 1..Len(ic) : ic[i] = x
\* evalVirtualComplete.eval on an unknown reference to a document with a
\* default rule, unified with the variable rterm: is a support rule made?
generateSupport(defaultFalse, ic) ==
  IF ~(defaultFalse /\ Disabled(ic, "rterm")) THEN TRUE ELSE FALSE
\* evalStep, case *ast.Term: the disable list pushed around unify
tracePush(t, ic) == IF t THEN Append(ic, "rterm") ELSE ic
tracePop(t, ic) == IF t THEN SubSeq(ic, 1, Len(ic) - 1) ELSE ic
Traced(kind, t) == t /\ kind = "term" /\ stp.partial

\* evalStep up to the call of unify, evalCall or evalEvery.eval
evalStepEnter(t) ==
  /\ stp.kind # "" /\ stp.run[t].pc = "start"
  /\ LET ic == IF stp.kind = "term" /\ stp.partial
               THEN tracePush(t, stp.run[t].ic) ELSE stp.run[t].ic
     IN stp' = [stp EXCEPT !.run[t].pc = "callee", !.run[t].ic = ic,
                           !.run[t].support =
                              stp.kind = "term" /\ stp.partial
                              /\ generateSupport(stp.deflt, ic)]
  /\ UNCHANGED notStp

\* the callee has a solution and invokes the closure evalStep gave it
evalStepSolution(t) ==
  /\ stp.run[t].pc = "callee"
  /\ stp.run[t].i < Len(stp.sols) /\ stp.run[t].err = NoErr
  /\ LET r == stp.run[t]
         sol == stp.sols[r.i + 1]
         saved == stp.kind = "term" /\ sol.saved
         calls == stp.kind # "term" \/ saved \/ sol.val # Bool(FALSE)
         seen == [ic |-> r.ic, saved |-> saved, val |-> sol.val]
     IN stp' = [stp EXCEPT
                  !.run[t].i = @ + 1,
                  !.run[t].conts = IF calls THEN Append(@, seen) ELSE @,
                  !.run[t].defined = @ \/ (t /\ calls /\ ~saved),
                  !.run[t].events =
                     IF t /\ calls /\ ~saved THEN Append(@, "redo") ELSE @,
                  !.run[t].err =
                     IF calls THEN stp.plan[Len(r.conts) + 1] ELSE @]
  /\ UNCHANGED notStp

\* the callee returns: the error of the continuation, or its own
evalStepReturn(t) ==
  /\ stp.run[t].pc = "callee"
  /\ stp.run[t].i = Len(stp.sols) \/ stp.run[t].err # NoErr
  /\ LET r == stp.run[t]
         err == IF r.err # NoErr THEN r.err ELSE stp.calleeErr
     IN stp' = [stp EXCEPT
                  !.run[t].pc = "done",
                  !.run[t].err = err,
                  !.run[t].ic = IF stp.kind = "term" /\ stp.partial
                                THEN tracePop(t, @) ELSE @,
                  !.run[t].events =
                     IF t /\ err = NoErr /\ ~r.defined
                     THEN Append(@, "fail") ELSE @]
  /\ UNCHANGED notStp

\* what the callee's solutions bind the generated variable to
StepSols(partial) ==
  LET S == {[val |-> v, saved |-> FALSE] : v \in {Bool(TRUE), Bool(FALSE), Num(0)}}
           \cup (IF partial THEN {[val |-> NoTerm, saved |-> TRUE]} ELSE {})
  IN {<<>>} \cup {<<x>> : x \in S} \cup {<<x, y>> : x, y \in S}

InitStep ==
  /\ Idle
  /\ OnlyStp
  /\ \E kind \in {"eq", "call", "term", "every"}, partial, deflt \in BOOLEAN,
        calleeErr \in {NoErr, <<"Internal">>},
        plan \in [1..2 -> {NoErr, <<"Internal">>}] :
       \E sols \in StepSols(partial) :
         /\ deflt => (kind = "term" /\ partial)
         /\ kind # "term" => \A i \in 1..Len(sols) : sols[i].val = Bool(TRUE)
         /\ stp = [NoStep EXCEPT !.kind = kind, !.partial = partial,
                                 !.sols = sols, !.calleeErr = calleeErr,
                                 !.plan = plan, !.deflt = deflt]

NextStep ==
  \E t \in BOOLEAN :
    evalStepEnter(t) \/ evalStepSolution(t) \/ evalStepReturn(t)

SpecStep == InitStep /\ [][NextStep]_vars

(* ---------------------------------------------------------------------- *)
(* Object comprehensions                                                   *)
(* ---------------------------------------------------------------------- *)
\* biunifyComprehensionObject: the iterator of the body, for one solution
comprehensionObjectIter(res, sol) ==
  LET exist == Get(res, sol.key) IN
  IF exist # Nil /\ exist # Scalar(sol.val)
  THEN [result |-> res, err |-> <<"objectDocKeyConflict">>]
  ELSE [result |-> Insert(res, sol.key, Scalar(sol.val)), err |-> NoErr]
\* buildComprehensionCacheObject: the iterator of the body, for one solution
cacheObjectIter(node, sol) ==
  LET cached == node[sol.index] IN
  IF cached # Nil
  THEN [node EXCEPT ![sol.index] = Insert(cached, sol.key, Scalar(sol.val))]
  ELSE [node EXCEPT ![sol.index] = Object1(sol.key, sol.val)]

\* biunifyComprehension chooses how the comprehension is materialised
biunifyComprehension ==
  /\ cpr.pc = "start"
  /\ cpr' = [cpr EXCEPT !.pc = IF cpr.cached THEN "cache" ELSE "direct"]
  /\ UNCHANGED notCpr

\* child.Run has a solution: biunifyComprehensionObject's iterator
biunifyComprehensionObject ==
  /\ cpr.pc = "direct" /\ cpr.i < Len(cpr.sols)
  /\ LET r == comprehensionObjectIter(cpr.result, cpr.sols[cpr.i + 1]) IN
     cpr' = [cpr EXCEPT !.i = @ + 1, !.result = r.result, !.err = r.err,
                        !.pc = IF r.err # NoErr THEN "done" ELSE @]
  /\ UNCHANGED notCpr

\* child.Run has a solution: buildComprehensionCacheObject's iterator
buildComprehensionCacheObject ==
  /\ cpr.pc = "cache" /\ cpr.i < Len(cpr.sols)
  /\ cpr' = [cpr EXCEPT !.i = @ + 1,
                        !.node = cacheObjectIter(@, cpr.sols[cpr.i + 1])]
  /\ UNCHANGED notCpr

\* child.Run is over: the object is unified with the other term; from the
\* cache it is the element of the outer bindings' index key
comprehensionObjectDone ==
  /\ cpr.pc \in {"direct", "cache"} /\ cpr.i = Len(cpr.sols)
  /\ cpr' = [cpr EXCEPT !.pc = "done",
                        !.result = IF cpr.pc = "cache" THEN cpr.node[cpr.at]
                                   ELSE @]
  /\ UNCHANGED notCpr

ComprSols ==
  [index : 1..2, key : 1..2, val : 1..MaxVal]
InitCompr ==
  /\ Idle
  /\ OnlyCpr
  /\ \E cached \in BOOLEAN, at \in 1..2,
        sols \in {<<>>} \cup {<<x>> : x \in ComprSols}
                 \cup {<<x, y>> : x, y \in ComprSols} :
       /\ ~cached => (at = 1 /\ \A i \in 1..Len(sols) : sols[i].index = 1)
       /\ cpr = [NoCompr EXCEPT !.sols = sols, !.cached = cached, !.at = at,
                                !.pc = "start"]

NextCompr ==
  \/ biunifyComprehension \/ biunifyComprehensionObject
  \/ buildComprehensionCacheObject \/ comprehensionObjectDone

SpecCompr == InitCompr /\ [][NextCompr]_vars

(* ---------------------------------------------------------------------- *)
(* merge and mergeObjects                                                  *)
(* ---------------------------------------------------------------------- *)
\* a faulty variant: a's value for every key of both, objects or not
mergeShallow(objA, objB) ==
  [v |-> MObj([k \in DOMAIN objA.f \cup DOMAIN objB.f |->
                 IF k \in DOMAIN objA.f THEN objA.f[k] ELSE objB.f[k]]),
   ok |-> TRUE]
\* a faulty variant: a key of both whose values are not both objects is a
\* conflict
mergeStrict(objA, objB) ==
  IF \E k \in DOMAIN objA.f \cap DOMAIN objB.f :
       ~(IsObj(objA.f[k]) /\ IsObj(objB.f[k]))
  THEN [v |-> MNil, ok |-> FALSE]
  ELSE mergeShallow(objA, objB)
RECURSIVE mergeObjects(_, _)
mergeObjects(objA, objB) ==
  LET both == {k \in DOMAIN objA.f \cap DOMAIN objB.f :
                 IsObj(objA.f[k]) /\ IsObj(objB.f[k])}
      obj3 == [k \in both |-> mergeObjects(objA.f[k], objB.f[k])]
      stop == \E k \in both : ~obj3[k].ok
  IN IF stop THEN [v |-> MNil, ok |-> FALSE]
     ELSE [v |-> MObj([k \in DOMAIN objA.f \cup DOMAIN objB.f |->
                         IF k \in both THEN obj3[k].v
                         ELSE IF k \in DOMAIN objA.f THEN objA.f[k]
                         ELSE objB.f[k]]),
           ok |-> TRUE]
merge(a, b) ==
  IF IsObj(a) /\ IsObj(b) THEN mergeObjects(a, b) ELSE [v |-> a, ok |-> TRUE]

mergeCall ==
  /\ mrg.pc = "start"
  /\ LET r == merge(mrg.a, mrg.b) IN
     mrg' = [mrg EXCEPT !.result = r.v, !.ok = r.ok, !.pc = "done"]
  /\ UNCHANGED notMrg
\* the callers of merge: Resolve (the base cache has the value),
\* resolveReadFromStorage (it was read from the store) and evalTree.extent
\* (base and virtual documents); each reports a merge conflict when ok is
\* false and returns the merged value otherwise
MergeCallers == {"Resolve", "resolveReadFromStorage", "extent"}
mergeReturned ==
  /\ mrg.pc = "done"
  /\ mrg' = [mrg EXCEPT !.pc = "returned",
                        !.err = IF mrg.ok THEN NoErr ELSE <<"MergeConflict">>,
                        !.result = IF mrg.ok THEN mrg.result ELSE MNil]
  /\ UNCHANGED notMrg

\* the values of depth at most 2 over two keys
MObjects(V) == UNION {{MObj(f) : f \in [K -> V]} : K \in SUBSET {1, 2}}
MScalars == {MNum(n) : n \in 1..MaxVal}
MValues == MScalars \cup MObjects(MScalars \cup MObjects(MScalars))

InitMerge ==
  /\ Idle
  /\ OnlyMrg
  /\ \E a, b \in MValues, c \in MergeCallers :
       mrg = [NoMerge EXCEPT !.a = a, !.b = b, !.a0 = a, !.b0 = b,
                             !.pc = "start", !.caller = c]
NextMerge == mergeCall \/ mergeReturned
SpecMerge == InitMerge /\ [][NextMerge]_vars

(* ---------------------------------------------------------------------- *)
(* evalNotPartial after the child's evaluation, on its own                 *)
(* ---------------------------------------------------------------------- *)
PTop == prd.stk[Len(prd.stk)]
\* ast.Expr.Complement
Complement(x) == [x EXCEPT !.neg = ~@]
\* the continuation: it sees the save stack and returns
productCalled(p) ==
  [p EXCEPT !.calls = Append(@, ssPeek(p.saveStack)),
            !.err = IF Len(p.calls) + 1 = p.failAt THEN <<"Internal">>
                    ELSE NoErr]

\* evalNotPartial from e.saveStack.PopQuery() on
evalNotPartialSaved ==
  /\ prd.pc = "start"
  /\ IF prd.queries = <<>>
     THEN prd' = [productCalled(prd) EXCEPT !.pc = "done", !.kind = "undefined"]
     ELSE IF ~canInlineNegation(prd.queries)
     THEN prd' = [prd EXCEPT !.pc = "done", !.kind = "support"]
     ELSE prd' = [prd EXCEPT !.pc = "product", !.kind = "product",
                             !.stk = <<[idx |-> 0, j |-> 1, curr |-> <<>>]>>]
  /\ UNCHANGED notPrd

\* complementedCartesianProduct: the test of idx, or one turn of its loop
productLoop ==
  /\ prd.pc = "product"
  /\ IF PTop.idx = Len(prd.queries)
     THEN \* iter(curr): saveInlinedNegatedExprs pushes the expressions
          prd' = [prd EXCEPT
                    !.saveStack = ssPushAll(@, PTop.curr,
                                            updateSavedMocks(prd.withs)),
                    !.pc = "saved"]
     ELSE IF PTop.j <= Len(prd.queries[PTop.idx + 1])
     THEN LET curr == Append(PTop.curr,
                             Complement(prd.queries[PTop.idx + 1][PTop.j]))
          IN prd' = [prd EXCEPT
                       !.stk = Append([@ EXCEPT ![Len(@)].curr = curr],
                                      [idx |-> PTop.idx + 1, j |-> 1,
                                       curr |-> curr])]
     ELSE prd' = [prd EXCEPT !.stk = SubSeq(@, 1, Len(@) - 1),
                             !.err = NoErr, !.pc = "returned"]
  /\ UNCHANGED notPrd

\* saveInlinedNegatedExprs: iter(), then one Pop for each expression
saveInlinedNegatedExprs ==
  /\ prd.pc = "saved"
  /\ LET p == productCalled(prd)
         ss == ssPopN(p.saveStack, Len(PTop.curr))
     IN prd' = [p EXCEPT !.saveStack = ss, !.posts = Append(@, ss),
                         !.stk = SubSeq(@, 1, Len(@) - 1),
                         !.pc = "returned"]
  /\ UNCHANGED notPrd

\* a faulty variant: the expression stays in the body
productKeep(curr) == curr
\* complementedCartesianProduct: curr = curr[:len(curr)-1]
productBacktrack(curr) == Front(curr)
\* the recursive call has returned: an error ends the loop
productReturned ==
  /\ prd.pc = "returned"
  /\ IF prd.stk = <<>>
     THEN prd' = [prd EXCEPT !.pc = "done"]
     ELSE IF prd.err # NoErr
     THEN prd' = [prd EXCEPT !.stk = SubSeq(@, 1, Len(@) - 1)]
     ELSE prd' = [prd EXCEPT
                    !.stk = [@ EXCEPT ![Len(@)].curr = productBacktrack(PTop.curr),
                                      ![Len(@)].j = @ + 1],
                    !.pc = "product"]
  /\ UNCHANGED notPrd

\* residual queries: one or two saved expressions each
Residuals ==
  LET A == {InputIs(Num(n)) : n \in 1..MaxVal}
           \cup {Not(InputIs(Num(1))), InputGt(Num(1))}
  IN {<<x>> : x \in A} \cup {q \in {<<x, y>> : x, y \in A} : q[1] # q[2]}
\* n times the same residual query of two expressions
Repeated(n) == [i \in 1..n |-> <<InputIs(Num(1)), Not(InputIs(Num(1)))>>]
InitProduct ==
  /\ Idle
  /\ OnlyPrd
  /\ \E queries \in {<<>>, Repeated(4), Repeated(5)}
                    \cup {<<q>> : q \in Residuals}
                    \cup {<<q, r>> : q, r \in Residuals},
        withs \in {<<>>, <<WithInput(Num(1))>>},
        failAt \in 0..2,
        base \in {<<<<>>>>, <<<<InputIs(Num(1))>>>>} :
       prd = [NoProduct EXCEPT !.queries = queries, !.withs = withs,
                               !.failAt = failAt, !.saveStack = base,
                               !.base = base, !.pc = "start"]

NextProduct ==
  \/ evalNotPartialSaved \/ productLoop \/ saveInlinedNegatedExprs
  \/ productReturned

SpecProduct == InitProduct /\ [][NextProduct]_vars

(* ---------------------------------------------------------------------- *)
(* evalTree.enumerate and evalTerm.enumerate on their own                  *)
(* ---------------------------------------------------------------------- *)
\* the error the continuation of candidate k returns
enumOutcome(k) ==
  CASE enm.plan[k] = "nil" -> NoErr
    [] enm.plan[k] = "D" -> <<"D", k>>
    [] enm.plan[k] = "E" -> <<"E", k>>
    [] OTHER -> <<"Internal">>

\* deferredEarlyExitContainer.handleErr: the container after err, and the
\* error handed back to the loop
containerHandleErr(deferred, err) ==
  IF err = NoErr THEN [deferred |-> deferred, err |-> NoErr]
  ELSE IF deferred = NoErr /\ IsDeferredEarlyExit(err)
  THEN [deferred |-> err, err |-> NoErr]
  ELSE [deferred |-> deferred, err |-> err]
\* evalTerm.enumerate's handleErr closure
termHandleErr(deferred, err) ==
  IF IsDeferredEarlyExit(err)
  THEN [deferred |-> IF deferred = NoErr THEN err ELSE deferred, err |-> NoErr]
  ELSE [deferred |-> deferred, err |-> err]

\* evalTree.enumerate: one turn of the loop over the document's array
\* indices, object keys or set members, then what follows the loop
treeEnumerate ==
  /\ enm.fn = "tree" /\ enm.pc = "doc"
  /\ IF enm.i <= enm.n
     THEN LET h == containerHandleErr(enm.deferred, enumOutcome(enm.i)) IN
          IF h.err # NoErr
          THEN enm' = [enm EXCEPT !.tried = Append(@, enm.i), !.pc = "done",
                                  !.deferred = h.deferred, !.ret = h.err]
          ELSE enm' = [enm EXCEPT !.tried = Append(@, enm.i), !.i = @ + 1,
                                  !.deferred = h.deferred]
     ELSE IF enm.deferred # NoErr
     THEN enm' = [enm EXCEPT !.pc = "done", !.ret = enm.deferred]
     ELSE IF enm.node = 0
     THEN enm' = [enm EXCEPT !.pc = "done", !.ret = NoErr]
     ELSE enm' = [enm EXCEPT !.pc = "node"]
  /\ UNCHANGED notEnm

\* evalTree.enumerate: one turn of the loop over e.node.Sorted
treeEnumerateNode ==
  /\ enm.fn = "tree" /\ enm.pc = "node"
  /\ IF enm.i <= enm.n + enm.node
     THEN IF enumOutcome(enm.i) # NoErr
          THEN enm' = [enm EXCEPT !.tried = Append(@, enm.i), !.pc = "done",
                                  !.ret = enumOutcome(enm.i)]
          ELSE enm' = [enm EXCEPT !.tried = Append(@, enm.i), !.i = @ + 1]
     ELSE enm' = [enm EXCEPT !.pc = "done", !.ret = NoErr]
  /\ UNCHANGED notEnm

\* evalTerm.enumerate: one turn of the loop over the term's array indices,
\* object keys or set members, then the return
termEnumerate ==
  /\ enm.fn = "term" /\ enm.pc = "doc"
  /\ IF enm.i <= enm.n
     THEN LET h == termHandleErr(enm.deferred, enumOutcome(enm.i)) IN
          IF h.err # NoErr
          THEN enm' = [enm EXCEPT !.tried = Append(@, enm.i), !.pc = "done",
                                  !.deferred = h.deferred, !.ret = h.err]
          ELSE enm' = [enm EXCEPT !.tried = Append(@, enm.i), !.i = @ + 1,
                                  !.deferred = h.deferred]
     ELSE enm' = [enm EXCEPT !.pc = "done", !.ret = enm.deferred]
  /\ UNCHANGED notEnm

\* the most candidates of either kind at one position
MaxCand == 3
EnumPlans(n) == [1..n -> {"nil", "D", "E", "err"}]
InitEnum ==
  /\ Idle
  /\ OnlyEnm
  /\ \E fn \in {"tree", "term"}, doc \in {"none", "array", "object", "set"},
        n \in 0..MaxCand, node \in 0..MaxCand - 1 :
       /\ (doc = "none") = (n = 0)
       /\ fn = "term" => (node = 0 /\ n > 0)
       /\ \E plan \in EnumPlans(n + node) :
            enm = [NoEnum EXCEPT !.fn = fn, !.doc = doc, !.n = n,
                                 !.node = node, !.plan = plan, !.pc = "doc",
                                 !.i = 1]

NextEnum == treeEnumerate \/ treeEnumerateNode \/ termEnumerate

SpecEnum == InitEnum /\ [][NextEnum]_vars

(* ---------------------------------------------------------------------- *)
(* Array and set comprehensions through the comprehension cache            *)
(* ---------------------------------------------------------------------- *)
\* a faulty variant: the cached array keeps the last head term only
cacheArrayLast(node, sol) == [node EXCEPT ![sol.index] = ArrayTerm(<<sol.head>>)]
\* buildComprehensionCacheArray: the iterator of the body, for one solution
cacheArrayIter(node, sol) ==
  LET cached == node[sol.index] IN
  IF cached # CNil
  THEN [node EXCEPT ![sol.index] = ArrayTerm(Append(cached.v, sol.head))]
  ELSE [node EXCEPT ![sol.index] = ArrayTerm(<<sol.head>>)]
\* buildComprehensionCacheSet: the iterator of the body, for one solution
cacheSetIter(node, sol) ==
  LET cached == node[sol.index] IN
  IF cached # CNil
  THEN [node EXCEPT ![sol.index] = SetTerm(cached.v \cup {sol.head})]
  ELSE [node EXCEPT ![sol.index] = SetTerm({sol.head})]

CAt == cch.ats[cch.j]
\* biunifyComprehension on a comprehension that is not unknown:
\* buildComprehensionCache up to the lookup of the cache element
buildComprehensionCache ==
  /\ cch.pc = "start"
  /\ IF ~cch.indexed
     THEN cch' = [cch EXCEPT !.skips = @ + 1, !.misses = @ + 1,
                             !.pc = "direct", !.i = 0,
                             !.result = IF cch.kind = "array"
                                        THEN ArrayTerm(<<>>) ELSE SetTerm({})]
     ELSE IF ~cch.elem
     THEN cch' = [cch EXCEPT !.pc = "build", !.i = 0,
                             !.building = [v \in 1..2 |-> CNil]]
     ELSE cch' = [cch EXCEPT !.hits = @ + 1, !.pc = "get"]
  /\ UNCHANGED notCch

\* child.Run has a solution: the iterator of buildComprehensionCacheArray
buildComprehensionCacheArray ==
  /\ cch.pc = "build" /\ cch.kind = "array" /\ cch.i < Len(cch.sols)
  /\ cch' = [cch EXCEPT !.i = @ + 1,
                        !.building = cacheArrayIter(@, cch.sols[cch.i + 1])]
  /\ UNCHANGED notCch

\* child.Run has a solution: the iterator of buildComprehensionCacheSet
buildComprehensionCacheSet ==
  /\ cch.pc = "build" /\ cch.kind = "set" /\ cch.i < Len(cch.sols)
  /\ cch' = [cch EXCEPT !.i = @ + 1,
                        !.building = cacheSetIter(@, cch.sols[cch.i + 1])]
  /\ UNCHANGED notCch

\* child.Run is over: comprehensionCache.Set and the build counter
comprehensionCacheSet ==
  /\ cch.pc = "build" /\ cch.i = Len(cch.sols)
  /\ cch' = [cch EXCEPT !.elem = TRUE, !.node = cch.building,
                        !.builds = @ + 1, !.pc = "get"]
  /\ UNCHANGED notCch

\* cache.Get(values): a value is unified with the other term, nil falls
\* through to the direct materialisation
comprehensionCacheGet ==
  /\ cch.pc = "get"
  /\ IF cch.node[CAt] # CNil
     THEN cch' = [cch EXCEPT !.result = cch.node[CAt], !.pc = "unify"]
     ELSE cch' = [cch EXCEPT !.misses = @ + 1, !.pc = "direct", !.i = 0,
                             !.result = IF cch.kind = "array"
                                        THEN ArrayTerm(<<>>) ELSE SetTerm({})]
  /\ UNCHANGED notCch

\* biunifyComprehensionArray: the body runs as a closure, under the outer
\* bindings of the index key; the iterator for one solution
biunifyComprehensionArray ==
  /\ cch.pc = "direct" /\ cch.kind = "array" /\ cch.i < Len(cch.sols)
  /\ cch' = [cch EXCEPT
               !.i = @ + 1,
               !.result = IF cch.sols[cch.i + 1].index = CAt
                          THEN ArrayTerm(Append(@.v, cch.sols[cch.i + 1].head))
                          ELSE @]
  /\ UNCHANGED notCch

\* biunifyComprehensionSet: the same for a set
biunifyComprehensionSet ==
  /\ cch.pc = "direct" /\ cch.kind = "set" /\ cch.i < Len(cch.sols)
  /\ cch' = [cch EXCEPT
               !.i = @ + 1,
               !.result = IF cch.sols[cch.i + 1].index = CAt
                          THEN SetTerm(@.v \cup {cch.sols[cch.i + 1].head})
                          ELSE @]
  /\ UNCHANGED notCch

\* child.Run of the direct materialisation is over
comprehensionDirectDone ==
  /\ cch.pc = "direct" /\ cch.i = Len(cch.sols)
  /\ cch' = [cch EXCEPT !.pc = "unify"]
  /\ UNCHANGED notCch

\* e.biunify(value, b, ...): the evaluation is over, the next one starts
comprehensionUnify ==
  /\ cch.pc = "unify"
  /\ cch' = [cch EXCEPT !.results = Append(@, cch.result),
                        !.pc = IF cch.j < Len(cch.ats) THEN "start" ELSE "done",
                        !.j = IF cch.j < Len(cch.ats) THEN @ + 1 ELSE @]
  /\ UNCHANGED notCch

\* the most solutions of the body, and the most evaluations in one scope
MaxSols == 3
MaxEvals == 3
CacheSols == [index : 1..2, head : 1..MaxVal]
InitCache ==
  /\ Idle
  /\ OnlyCch
  /\ \E kind \in {"array", "set"}, indexed \in BOOLEAN,
        sols \in UNION {[1..n -> CacheSols] : n \in 0..MaxSols},
        ats \in UNION {[1..n -> 1..2] : n \in 1..MaxEvals} :
       cch = [NoCache EXCEPT !.kind = kind, !.indexed = indexed,
                             !.sols = sols, !.ats = ats, !.j = 1,
                             !.pc = "start"]

NextCache ==
  \/ buildComprehensionCache \/ buildComprehensionCacheArray
  \/ buildComprehensionCacheSet \/ comprehensionCacheSet
  \/ comprehensionCacheGet \/ biunifyComprehensionArray
  \/ biunifyComprehensionSet \/ comprehensionDirectDone
  \/ comprehensionUnify

SpecCache == InitCache /\ [][NextCache]_vars

(* ---------------------------------------------------------------------- *)
(* evalBuiltin.eval with the ND cache                                      *)
(* ---------------------------------------------------------------------- *)
\* the cached value v reaches the continuation
cachedReaches(form, term, v) ==
  CASE form = "none" -> TRUE
    [] form = "pred" -> v # Bool(FALSE)
    [] OTHER -> Unifies(term, v)
\* the callback given to the implementation: output reaches the continuation
outputReaches(form, term, output) ==
  CASE form = "none" -> TRUE
    [] form = "pred" -> output # Bool(FALSE)
    [] OTHER -> Unifies(term, output)

NTop == ndb.stk[Len(ndb.stk)]
NCall(k) == [pc |-> "start", k |-> k, output |-> NoTerm]
NLog(how, v, cont) ==
  Append(ndb.log, [how |-> how, v |-> v, cont |-> cont, invoked |-> ndb.invoked])
\* evalBuiltin.eval up to the continuation: the cache is looked up, and on a
\* miss the implementation is invoked and calls back with its output; the
\* continuation is the next identical call or the query's iterator
ndbEval ==
  /\ ndb.stk # <<>> /\ NTop.pc = "start"
  /\ LET last == NTop.k = ndb.rounds[ndb.r]
         after == NCall(NTop.k + 1)
     IN IF ndb.canUse /\ ndb.cache # <<>>
        THEN LET v == ndb.cache[1]
                 cont == cachedReaches(ndb.form, ndb.term, v)
             IN ndb' = [ndb EXCEPT
                   !.log = NLog("hit", v, cont),
                   !.sols = IF cont /\ last THEN @ + 1 ELSE @,
                   !.stk = IF cont /\ ~last
                           THEN Append([@ EXCEPT ![Len(@)].pc = "tail"], after)
                           ELSE [@ EXCEPT ![Len(@)].pc = "tail"]]
        ELSE LET output == ndb.plan[ndb.invoked + 1]
                 cont == outputReaches(ndb.form, ndb.term, output)
             IN ndb' = [ndb EXCEPT
                   !.invoked = @ + 1,
                   !.log = NLog("miss", output, cont),
                   !.sols = IF cont /\ last THEN @ + 1 ELSE @,
                   !.stk = IF cont /\ ~last
                           THEN Append([@ EXCEPT ![Len(@)].pc = "called",
                                                ![Len(@)].output = output],
                                       after)
                           ELSE [@ EXCEPT ![Len(@)].pc = "called",
                                          ![Len(@)].output = output]]
  /\ UNCHANGED notNdb

\* the continuation has returned: after a hit eval returns; in the callback
\* the output is put into the ND cache, then the implementation and eval
\* return
ndbReturn ==
  /\ ndb.stk # <<>> /\ NTop.pc \in {"tail", "called"}
  /\ ndb' = [ndb EXCEPT
               !.cache = IF NTop.pc = "called" /\ ndb.canUse
                         THEN <<NTop.output>> ELSE @,
               !.stk = SubSeq(@, 1, Len(@) - 1)]
  /\ UNCHANGED notNdb

\* the query comes to the call again
ndbRound ==
  /\ ndb.stk = <<>> /\ ndb.r < Len(ndb.rounds)
  /\ ndb' = [ndb EXCEPT !.r = @ + 1, !.stk = <<NCall(1)>>]
  /\ UNCHANGED notNdb

\* the most rounds, and the most identical calls in one continuation
MaxRounds == 2
MaxChain == 2
InitNdb ==
  /\ Idle
  /\ OnlyNdb
  /\ \E form \in {"none", "pred", "out"}, term \in {NoTerm, FreshVar} \cup Vals,
        canUse \in BOOLEAN,
        rounds \in UNION {[1..n -> 1..MaxChain] : n \in 1..MaxRounds},
        plan \in [1..MaxRounds * MaxChain -> Vals] :
       /\ (form = "out") = (term # NoTerm)
       /\ ndb = [NoNdb EXCEPT !.form = form, !.term = term,
                              !.canUse = canUse, !.rounds = rounds,
                              !.plan = plan]

NextNdb == ndbEval \/ ndbReturn \/ ndbRound

SpecNdb == InitNdb /\ [][NextNdb]_vars

(* ---------------------------------------------------------------------- *)
(* evalResolver.Resolve and resolveReadFromStorage                         *)
(* ---------------------------------------------------------------------- *)
\* ast.Value.Find: the value at path, MNil for the error of a missing path
RECURSIVE Find(_, _)
Find(doc, path) ==
  IF path = <<>> THEN doc
  ELSE IF IsObj(doc) /\ path[1] \in DOMAIN doc.f
  THEN Find(doc.f[path[1]], Tail(path))
  ELSE MNil
\* refStack.Prefixed on the `with` targets: a target is a prefix of ref
targetPrefixed(targets, path) == \E t \in targets : HasPrefix(path, t)
\* baseCache.Get: the value kept for the shortest cached prefix of the
\* path, followed down the rest of it
cacheGet(cache, path) ==
  LET hit == {n \in 0..Len(path) : SubSeq(path, 1, n) \in DOMAIN cache} IN
  IF hit = {} THEN MNil
  ELSE LET n == CHOOSE x \in hit : \A y \in hit : x <= y
       IN Find(cache[SubSeq(path, 1, n)], SubSeq(path, n + 1, Len(path)))
\* baseCache.Put
cachePut(cache, path, v) ==
  [p \in DOMAIN cache \cup {path} |-> IF p = path THEN v ELSE cache[p]]
\* bindings.PlugNamespaced of an argument
plugArg(t, bound) == IF t = RVar THEN MNum(bound) ELSE t

Unknown == <<"UnknownValue">>
\* what a call returns and does: v, err, the storage paths read, whether
\* the base cache was asked, whether it had the value, what it is left as
Resolved(v, err) ==
  [v |-> v, err |-> err, read |-> <<>>, asked |-> FALSE, hit |-> FALSE,
   cache |-> rsv.cache]

\* resolveReadFromStorage: e.baseCache.Put(ref, v)
storagePut(cache, path, v) == cachePut(cache, path, v)

\* resolveReadFromStorage(ref, a), the external resolver having no value
resolveReadFromStorage(ref, a) ==
  IF ~ref.scalar
  THEN [Resolved(a, NoErr) EXCEPT !.asked = TRUE]
  ELSE LET blob == Find(rsv.store, ref.path) IN
       IF blob = MNil
       THEN [Resolved(a, NoErr) EXCEPT !.asked = TRUE, !.read = <<ref.path>>]
       ELSE [Resolved(IF a = MNil THEN blob ELSE merge(a, blob).v, NoErr)
               EXCEPT !.asked = TRUE, !.read = <<ref.path>>,
                      !.cache = storagePut(rsv.cache, ref.path, blob)]

\* a faulty variant: no position is taken for valid
argNone(i, args) == FALSE
\* Resolve: i >= 0 && i < len(e.args)
argValid(i, args) == i >= 0 /\ i < Len(args)

\* evalResolver.Resolve(ref); off: inlining is disabled for the ref or the
\* save set holds it
ResolveRef(ref, off) ==
  IF off THEN Resolved(MNil, Unknown)
  ELSE IF ref.root = "args"
  THEN IF ref.num /\ argValid(ref.path[1], rsv.args)
       THEN Resolved(plugArg(rsv.args[ref.path[1] + 1], rsv.bound), NoErr)
       ELSE Resolved(MNil, Unknown)
  ELSE IF ref.root = "input"
  THEN IF rsv.input # MNil
       THEN Resolved(Find(rsv.input, ref.path), NoErr)
       ELSE Resolved(MNil, NoErr)
  ELSE IF ref.root = "data"
  THEN LET repValue == IF rsv.data # MNil /\ ref.scalar
                       THEN Find(rsv.data, ref.path) ELSE MNil
       IN IF targetPrefixed(rsv.targets, ref.path)
          THEN Resolved(repValue, NoErr)
          ELSE LET realValue == IF ref.scalar
                                THEN cacheGet(rsv.cache, ref.path) ELSE MNil
               IN IF realValue # MNil
                  THEN [Resolved(IF repValue = MNil THEN realValue
                                 ELSE merge(repValue, realValue).v, NoErr)
                          EXCEPT !.asked = TRUE, !.hit = TRUE]
                  ELSE resolveReadFromStorage(ref, repValue)
  ELSE Resolved(MNil, <<"illegal ref">>)

\* the references resolved
RPaths == UNION {[1..n -> {1, 2}] : n \in 1..2}
RRef(root, path) == [root |-> root, path |-> path, num |-> TRUE, scalar |-> TRUE]
RRefs ==
  {RRef("args", <<i>>) : i \in -1..2}
  \cup {[RRef("args", <<1>>) EXCEPT !.num = FALSE]}
  \cup {RRef("input", p) : p \in RPaths \cup {<<>>}}
  \cup {RRef("data", p) : p \in RPaths}
  \cup {[RRef("data", p) EXCEPT !.scalar = FALSE] : p \in {<<1>>, <<1, 2>>}}
  \cup {RRef("other", <<>>)}
\* the most calls of Resolve in one evaluation
MaxResolves == 2
Resolve ==
  /\ Len(rsv.log) < MaxResolves
  /\ \E ref \in RRefs, off \in BOOLEAN :
       /\ rsv.log # <<>> => (ref.root = "data" /\ rsv.log[1].ref.root = "data")
       /\ LET r == ResolveRef(ref, off) IN
          rsv' = [rsv EXCEPT
                    !.cache = r.cache, !.reads = @ \o r.read,
                    !.log = Append(@, [ref |-> ref, off |-> off, v |-> r.v,
                                       err |-> r.err, read |-> r.read,
                                       asked |-> r.asked, hit |-> r.hit])]
  /\ UNCHANGED notRsv

\* the documents: numbers below one or two keys
RDocs ==
  {MObj([k \in {1} |-> MNum(1)]),
   MObj([k \in {1} |-> MObj([j \in {1} |-> MNum(1)])]),
   MObj([k \in {1, 2} |-> MObj([j \in {k} |-> MNum(MaxVal)])])}
\* `with data.<path> as <value>`: the overlay and its target
RWiths ==
  {[data |-> MNil, targets |-> {}],
   [data |-> MObj([k \in {1} |-> MNum(MaxVal)]), targets |-> {<<1>>}],
   [data |-> MObj([k \in {1} |-> MObj([j \in {2} |-> MNum(MaxVal)])]),
    targets |-> {<<1, 2>>}]}
InitResolve ==
  /\ Idle
  /\ OnlyRsv
  /\ \E args \in {<<>>, <<MNum(1)>>, <<MNum(1), RVar>>}, bound \in 1..MaxVal,
        input \in {MNil} \cup RDocs, w \in RWiths, store \in {MNil} \cup RDocs :
       /\ (w.data # MNil \/ store # MNil) =>
            (args = <<>> /\ bound = 1 /\ input = MNil)
       /\ rsv = [NoResolve EXCEPT !.args = args, !.bound = bound,
                                  !.input = input, !.data = w.data,
                                  !.targets = w.targets, !.store = store]

NextResolve == Resolve

SpecResolve == InitResolve /\ [][NextResolve]_vars

(* ---------------------------------------------------------------------- *)
(* evalVirtual.eval and evalFunc.eval under partial evaluation             *)
(* ---------------------------------------------------------------------- *)
\* eval.unknownRef on the reference and eval.unknown on the expression
unknownRef(o) == o.partial /\ o.refUnknown
unknownExpr(o) == o.partial /\ (o.withs \/ o.refUnknown \/ o.argUnknown)
\* evalFunc.eval: unknownRef(ref), then unknown(e.terms[i]) on each argument
unknownCall(o) == o.partial /\ (o.refUnknown \/ o.argUnknown)

ordIr == getRules(ord.a, ord.b, ord.name, TRUE)
\* IndexResult.Empty
irEmpty(r) == Len(r.Rules) = 0 /\ r.Default = NoRule
\* len(ir.Else) > 0: some rule of the set has an else chain
ordered(r) == \E i \in 1..Len(r.Else) : Len(r.Else[i]) > 0

\* the expression saveUnify and saveCall push on the save stack
savedExpr(o) == [kind |-> o.kind, name |-> o.name]
\* saveUnify, saveCall: saveStack.Push, then iter()
ordSave(o) ==
  [o EXCEPT !.pc = "saved", !.saveStack = Append(@, savedExpr(o)),
            !.iters = @ + 1]
ordModed(o, mode) ==
  [o EXCEPT !.pc = "rules", !.mode = mode, !.i = 1, !.j = 0]
ordDone(o) == [o EXCEPT !.pc = "done"]

\* evalVirtual.eval: a rule set with else chains behind an unknown reference
\* is saved, any other goes to evalVirtualComplete.eval
evalVirtual ==
  /\ ord.pc = "start" /\ ord.kind = "ref"
  /\ ord' = IF ordered(ordIr) /\ unknownRef(ord) THEN ordSave(ord)
            ELSE [ord EXCEPT !.pc = "complete"]
  /\ UNCHANGED notOrd

\* evalVirtualComplete.eval
completeGenerateSupport(o, r) ==
  /\ r.Default # NoRule
  /\ ~(r.Default.head = Const(Bool(FALSE)) /\ o.disabled)
  /\ (~o.constant \/ o.equalsDefault)
evalVirtualComplete ==
  /\ ord.pc = "complete"
  /\ ord' = IF irEmpty(ordIr) THEN ordDone(ord)
            ELSE IF ~unknownRef(ord) THEN ordModed(ord, "value")
            ELSE IF completeGenerateSupport(ord, ordIr) \/ ord.shallow \/ ord.disabled
            THEN ordModed(ord, "support")
            ELSE ordModed(ord, "partial")
  /\ UNCHANGED notOrd

\* evalFunc.eval
mustGenerateSupport(o, r) ==
  /\ r.Default # NoRule
  /\ (o.output \/ r.Default.head # Const(Bool(FALSE)))
evalFunc ==
  /\ ord.pc = "start" /\ ord.kind = "call"
  /\ ord' = IF irEmpty(ordIr) THEN ordDone(ord)
            ELSE IF ordered(ordIr) /\ unknownExpr(ord) THEN ordSave(ord)
            ELSE IF /\ ord.partial
                    /\ (mustGenerateSupport(ord, ordIr) \/ ord.shallow \/ ord.disabled)
                    /\ unknownCall(ord)
            THEN ordModed(ord, "support")
            ELSE ordModed(ord, "value")
  /\ UNCHANGED notOrd

\* the rule the loop stands at
ordAt(o) == IF o.i = 0 THEN <<0, 0>> ELSE <<o.i, o.j>>
\* after the body at <<i, j>>: evalValue goes down the else chain of a rule
\* whose body was undefined; partialEval and partialEvalSupport go over
\* ir.Rules alone, partialEvalSupport then over ir.Default
ordNext(o, r, defined) ==
  IF o.i = 0 THEN [o EXCEPT !.pc = "ruled"]
  ELSE IF o.mode = "value" /\ ~defined /\ o.j < Len(r.Else[o.i])
  THEN [o EXCEPT !.j = @ + 1]
  ELSE IF o.i < Len(r.Rules) THEN [o EXCEPT !.i = @ + 1, !.j = 0]
  ELSE IF r.Default # NoRule /\ (o.mode = "support" \/ (o.mode = "value" /\ ~o.defined /\ ~defined))
  THEN [o EXCEPT !.i = 0, !.j = 0]
  ELSE [o EXCEPT !.pc = "ruled"]

\* one rule body is evaluated, with a solution or without: evalValue and
\* partialEval hand the head's value to the continuation,
\* partialEvalSupportRule inserts the rule's residual in the support set
ordRule ==
  /\ ord.pc = "rules"
  /\ \E defined \in BOOLEAN :
       LET o == [ord EXCEPT !.bodies = Append(@, ordAt(ord)),
                            !.defined = @ \/ defined,
                            !.iters = IF defined /\ ord.mode # "support"
                                      THEN @ + 1 ELSE @,
                            !.saveSupport =
                               IF defined /\ ord.mode = "support"
                               THEN @ \cup {[path |-> ord.name, rule |-> ordAt(ord)]}
                               ELSE @]
       IN ord' = ordNext(o, ordIr, defined)
  /\ UNCHANGED notOrd

\* the end of the rule loop: partialEvalSupport saves the reference or the
\* call when the support set has the path
ordRuled ==
  /\ ord.pc = "ruled"
  /\ ord' = IF ord.mode = "support" /\ ord.defined THEN ordSave(ord)
            ELSE ordDone(ord)
  /\ UNCHANGED notOrd

\* saveUnify, saveCall after iter(): saveStack.Pop
ordSaved ==
  /\ ord.pc = "saved"
  /\ ord' = [ord EXCEPT !.pc = "done", !.saveStack = Front(@)]
  /\ UNCHANGED notOrd

OrdCompletes == {"c", "d", "e", "p", "q"}
OrdFuncs == {"g", "h", "k"}
InitOrdered ==
  /\ Idle
  /\ OnlyOrd
  /\ \E kind \in {"ref", "call"}, name \in OrdCompletes \cup OrdFuncs,
        a, b \in Vals,
        partial, refUnknown, argUnknown, withs, shallow, disabled, output,
        constant, equalsDefault \in BOOLEAN :
       /\ (kind = "ref") = (name \in OrdCompletes)
       /\ a = Num(1) /\ b = Num(MaxVal)
       /\ partial \/ ~(refUnknown \/ argUnknown \/ withs \/ shallow \/ disabled)
       /\ withs => disabled
       /\ disabled => refUnknown
       /\ equalsDefault => constant
       /\ (kind = "call") => (~constant /\ ~equalsDefault)
       /\ (kind = "ref") => ~output
       /\ ord = [NoOrdered EXCEPT
                   !.pc = "start", !.kind = kind, !.name = name, !.a = a,
                   !.b = b, !.partial = partial, !.refUnknown = refUnknown,
                   !.argUnknown = argUnknown, !.withs = withs,
                   !.shallow = shallow, !.disabled = disabled,
                   !.output = output, !.constant = constant,
                   !.equalsDefault = equalsDefault]

NextOrdered ==
  \/ evalVirtual
  \/ evalVirtualComplete
  \/ evalFunc
  \/ ordRule
  \/ ordRuled
  \/ ordSaved

SpecOrdered == InitOrdered /\ [][NextOrdered]_vars

(* ---------------------------------------------------------------------- *)
(* vcKeyScope and evalVirtualPartial.evalCache                             *)
(* ---------------------------------------------------------------------- *)
\* Value.Compare and Value.Hash of the terms of a reference: a number hashes
\* to its value
ValueCompare(a, b) == IF a = b THEN 0 ELSE 1
ValueHash(t) == IF t.k = "num" THEN t.n ELSE Len(t.v)

\* vcKeyScope.Compare
vcKeyScopeCompare(q, other) ==
  IF other.k # "scope" THEN 1
  ELSE IF Len(q.ref) # Len(other.ref) THEN 0 - 1
  ELSE IF \E i \in 1..Len(q.ref) :
            /\ ~(q.ref[i].k = "var" /\ other.ref[i].k = "var")
            /\ ValueCompare(q.ref[i], other.ref[i]) # 0
  THEN 0 - 1
  ELSE 0

\* a faulty variant: a variable of the scope is hashed as any other term
scopeTermHash0(t) == ValueHash(t)
\* vcKeyScope.Hash on one term: all vars are equal
scopeTermHash(t) == IF t.k = "var" THEN 1 ELSE ValueHash(t)
RECURSIVE vcKeyScopeHash(_)
vcKeyScopeHash(ref) ==
  IF ref = <<>> THEN 0 ELSE scopeTermHash(ref[1]) + vcKeyScopeHash(Tail(ref))

\* vcKeyScope.reduce: the variables at the tail of the scope are removed
RECURSIVE vcKeyScopeReduce(_)
vcKeyScopeReduce(ref) ==
  IF ref # <<>> /\ ref[Len(ref)].k = "var" THEN vcKeyScopeReduce(Front(ref))
  ELSE ref

\* the virtual cache's map of a node's children: a term is found by its hash
\* and Term.Equal, which is Compare for a scope
termHash(t) == IF t.k = "scope" THEN vcKeyScopeHash(t.ref) ELSE ValueHash(t)
termEqual(x, y) ==
  IF x.k = "scope" THEN vcKeyScopeCompare(x, y) = 0
  ELSE y.k # "scope" /\ ValueCompare(x, y) = 0
sameSlot(a, b) ==
  /\ Len(a) = Len(b)
  /\ \A i \in 1..Len(a) : termHash(a[i]) = termHash(b[i]) /\ termEqual(a[i], b[i])
\* virtualCache.Get and Put
virtualCacheGet(cache, ckey) ==
  LET at == {n \in 1..Len(cache) : sameSlot(ckey, cache[n].key)} IN
  IF at = {} THEN VNil ELSE cache[CHOOSE n \in at : \A x \in at : n <= x].val
virtualCachePut(cache, ckey, val) ==
  LET at == {n \in 1..Len(cache) : sameSlot(ckey, cache[n].key)} IN
  IF at = {} THEN Append(cache, [key |-> ckey, val |-> val])
  ELSE [n \in 1..Len(cache) |-> IF n \in at THEN [cache[n] EXCEPT !.val = val]
                                ELSE cache[n]]

\* the policy of the reads:
\*   a[x][y][z][w] := x + y + z + w if {
\*     some x in [1, 2]; some y in [3, 4]; some z in [5, 6]; some w in [5, 6] }
ScopeRule == <<{1, 2}, {3, 4}, {5, 6}, {5, 6}>>
\* maxRefLength(e.ir.Rules, len(e.ref)) for the rule above, with ref the
\* terms after data.test.a
maxRefLength(ref) == IF Len(ScopeRule) >= Len(ref) THEN Len(ref) ELSE Len(ScopeRule)
\* the value of the rule set below data.test.a after the reference has been
\* unified with the rule's: the leaves, each by its path; VNil for none
scopeAt(ref, i) ==
  IF i > maxRefLength(ref) \/ ref[i].k = "var" THEN ScopeRule[i]
  ELSE IF ref[i].k = "num" THEN ScopeRule[i] \cap {ref[i].n}
  ELSE {}
scopeLeaves(ref) ==
  {<<x, y, z, w>> : x \in scopeAt(ref, 1), y \in scopeAt(ref, 2),
                    z \in scopeAt(ref, 3), w \in scopeAt(ref, 4)}
scopeFull == scopeLeaves(<<>>)
\* the leaves of a cached term that the rest of the reference unifies with
scopeUnify(val, ref) ==
  {t \in val : \A i \in 1..Len(ref) :
     IF i <= Len(ScopeRule) THEN ref[i].k # "comp" /\ (ref[i].k = "num" => t[i] = ref[i].n)
     ELSE FALSE}

\* evalVirtualPartialCacheHint.keyWithoutScope
keyWithoutScope(ckey) ==
  IF ckey # <<>> /\ ckey[Len(ckey)].k = "scope" THEN Front(ckey) ELSE ckey

NoHint == [key |-> <<>>, nokey |-> TRUE, hit |-> FALSE, full |-> FALSE,
           scoping |-> FALSE, cached |-> VNil]
\* evalCache's loop over the reference: the hint key grows by the ground
\* terms, then by a scope of every term from the first that is not ground,
\* and is looked up at each step
RECURSIVE evalCacheLoop(_, _, _, _)
evalCacheLoop(cache, ref, i, hint) ==
  IF i > maxRefLength(ref) THEN hint
  ELSE LET plugged == ref[i]
           ground == plugged.k = "num" /\ ~hint.scoping
           hl == Len(hint.key)
           hkey == IF ground THEN Append(SubSeq(ref, 1, i - 1), plugged)
                  ELSE IF hl = 0 THEN hint.key
                  ELSE IF hint.key[hl].k = "scope"
                  THEN [hint.key EXCEPT ![hl].ref = Append(@, plugged)]
                  ELSE Append(hint.key, vcKeyScope(<<plugged>>))
           h == [hint EXCEPT !.key = hkey, !.scoping = ~ground,
                             !.nokey = @ /\ ~ground]
       IN IF ~ground /\ hl = 0 THEN h
          ELSE IF virtualCacheGet(cache, hkey) # VNil
          THEN [h EXCEPT !.hit = TRUE, !.cached = virtualCacheGet(cache, hkey)]
          ELSE evalCacheLoop(cache, ref, i + 1, h)

\* evalVirtualPartial.evalCache
evalCache(cache, ref) ==
  IF virtualCacheGet(cache, <<>>) # VNil
  THEN [NoHint EXCEPT !.hit = TRUE, !.cached = virtualCacheGet(cache, <<>>)]
  ELSE IF ref[1].k = "var" THEN [NoHint EXCEPT !.full = TRUE, !.nokey = FALSE]
  ELSE LET h == evalCacheLoop(cache, ref, 1, NoHint)
           hl == Len(h.key)
       IN IF h.hit \/ hl = 0 \/ h.key[hl].k # "scope" THEN h
          ELSE LET scope == vcKeyScopeReduce(h.key[hl].ref) IN
               IF scope = <<>> THEN [h EXCEPT !.key = Front(h.key)]
               ELSE [h EXCEPT !.key[hl].ref = scope]

\* the reads of data.test.a[...] in one evaluation
MaxReads == 2
\* the references read, by the terms after data.test.a
ScopeTerms ==
  <<{SNum(1), SVar("_")}, {SVar("_"), SVar("foo"), SNum(3)},
    {SVar("_"), SNum(5), SNum(6)}, {SVar("_"), SNum(5), SNum(6)}>>
ScopeRefs ==
  UNION {{r \in [1..n -> UNION {ScopeTerms[i] : i \in 1..Len(ScopeTerms)}] :
            \A i \in 1..n : r[i] \in ScopeTerms[i]} : n \in 1..Len(ScopeTerms)}
  \cup {<<SComp>>, <<SNum(1), SVar("_"), SNum(5), SVar("_"), SNum(5)>>,
        <<SNum(1), SNum(3), SNum(5), SNum(6), SVar("_")>>}

\* evalVirtualPartial.evalEachRule outside partial evaluation: a hit unifies
\* the cached term, a miss evaluates the rules and puts what they gave at the
\* hint key's location under the hint key
evalEachRule ==
  /\ Len(vks.log) < MaxReads
  /\ \E ref \in ScopeRefs :
       LET hint == evalCache(vks.cache, ref)
           leaves == IF hint.full THEN scopeFull ELSE scopeLeaves(ref)
           put == ~hint.hit /\ ~hint.nokey /\ leaves # {}
       IN vks' = [vks EXCEPT
            !.hits = IF hint.hit THEN @ + 1 ELSE @,
            !.misses = IF hint.hit THEN @ ELSE @ + 1,
            !.cache = IF put THEN virtualCachePut(@, hint.key, leaves) ELSE @,
            !.log = Append(@, [ref |-> ref, key |-> hint.key, hit |-> hint.hit,
                               full |-> hint.full, put |-> put,
                               sols |-> IF hint.hit THEN scopeUnify(hint.cached, ref)
                                        ELSE scopeUnify(leaves, ref)])]
  /\ UNCHANGED notVks

InitScope ==
  /\ Idle
  /\ OnlyVks
  /\ vks = NoScope

NextScope == evalEachRule

SpecScope == InitScope /\ [][NextScope]_vars

(* ---------------------------------------------------------------------- *)
(* The else chains of a rule set, on their own                             *)
(* ---------------------------------------------------------------------- *)
\* what the body of a clause comes to: no solution, a solution with a known
\* head value, a solution whose head value is in the save set, an error
ClauseOutcomes == {"undefined", "value", "unknown", "halt"}
\* what the continuation returns to the clause that called it
ContErrs == {NoErr, <<"E">>, <<"D">>}

\* evalOneRule's callback saves an expression testing the head value, and
\* records no result: the output is not captured and the value is unknown
headSaved(c, o) ==
  c.kind = "func" /\ ~c.captured /\ c.partial /\ o = "unknown"

\* evalValueRule and evalOneRule on a clause whose body comes to o with head
\* value v, the continuation returning cont: the result and the error
\* returned, whether the body had a solution, whether the continuation ran
clauseResult(c, o, v, cont) ==
  IF o = "undefined"
  THEN [result |-> 0, err |-> NoErr, solved |-> FALSE, ran |-> FALSE]
  ELSE IF o = "halt"
  THEN [result |-> 0, err |-> <<"Halt">>, solved |-> FALSE, ran |-> FALSE]
  ELSE IF headSaved(c, o)
  THEN [result |-> 0, err |-> cont, solved |-> TRUE, ran |-> TRUE]
  ELSE IF c.prev # 0 /\ (c.kind = "complete" \/ ~c.partial)
  THEN [result |-> v,
        err |-> IF v # c.prev THEN <<"conflict">> ELSE NoErr,
        solved |-> TRUE, ran |-> FALSE]
  ELSE [result |-> v, err |-> cont, solved |-> TRUE, ran |-> TRUE]

\* the clause at hand is evaluated
chainEval(o, v, cont, to) ==
  LET res == clauseResult(els, o, v, cont) IN
    /\ (o = "unknown") => els.partial
    /\ (o \in {"undefined", "halt"}) => (v = 1 /\ cont = NoErr)
    /\ ~res.ran => cont = NoErr
    /\ els' = [els EXCEPT !.pc = to, !.nxt = res.result, !.err = res.err,
                          !.tried = Append(@, [i |-> els.i, j |-> els.j,
                                               solved |-> res.solved,
                                               result |-> res.result]),
                          !.iters = @ + IF res.ran THEN 1 ELSE 0]

\* for _, rule := range e.ir.Rules: the rule's own body
chainRule ==
  /\ els.pc = "rules"
  /\ els.i <= els.rules
  /\ \E o \in ClauseOutcomes, v \in 1..MaxVal, cont \in ContErrs :
       chainEval(o, v, cont, "ruled")
  /\ UNCHANGED notEls

\* for _, erule := range e.ir.Else[rule]: the next else clause
chainElse ==
  /\ els.pc = "else"
  /\ \E o \in ClauseOutcomes, v \in 1..MaxVal, cont \in ContErrs :
       chainEval(o, v, cont, "ruled")
  /\ UNCHANGED notEls

\* if next == nil: the chain goes on to the clause after this one
chainGoesOn(c) == c.nxt = 0 /\ c.j < c.elses

\* the clause has returned
chainRuled ==
  /\ els.pc = "ruled"
  /\ IF els.err # NoErr /\ ~IsDeferredEarlyExit(els.err)
     THEN els' = [els EXCEPT !.pc = "done", !.ret = suppressEarlyExit(els.err)]
     ELSE LET oee == IF els.err # NoErr /\ els.outerEe = NoErr
                     THEN els.err ELSE els.outerEe
          IN IF chainGoesOn(els)
             THEN els' = [els EXCEPT !.pc = "else", !.j = @ + 1,
                                     !.outerEe = oee]
             ELSE els' = [els EXCEPT !.pc = "rules", !.i = @ + 1, !.j = 0,
                                     !.outerEe = oee,
                                     !.prev = IF els.nxt # 0 THEN els.nxt ELSE @]
  /\ UNCHANGED notEls

\* if e.ir.Default != nil && prev == nil
chainDefault ==
  /\ els.pc = "rules"
  /\ els.i > els.rules
  /\ els.dflt /\ els.prev = 0
  /\ \E o \in ClauseOutcomes, v \in 1..MaxVal, cont \in ContErrs :
       chainEval(o, v, cont, "defaulted")
  /\ UNCHANGED notEls

chainDefaulted ==
  /\ els.pc = "defaulted"
  /\ els' = [els EXCEPT !.pc = "done", !.ret = suppressEarlyExit(els.err)]
  /\ UNCHANGED notEls

\* the rules are through and no default rule is to be evaluated
chainReturn ==
  /\ els.pc = "rules"
  /\ els.i > els.rules
  /\ ~(els.dflt /\ els.prev = 0)
  /\ els' = [els EXCEPT !.pc = "done", !.ret = suppressEarlyExit(els.outerEe)]
  /\ UNCHANGED notEls

InitElse ==
  /\ Idle
  /\ OnlyEls
  /\ \E kind \in {"complete", "func"}, partial, captured, dflt \in BOOLEAN,
        rules \in 1..2, elses \in 0..MaxElse :
       /\ (kind = "complete") => ~captured
       /\ els = [NoChain EXCEPT !.pc = "rules", !.kind = kind,
                                !.partial = partial, !.captured = captured,
                                !.dflt = dflt, !.rules = rules,
                                !.elses = elses, !.i = 1]

NextElse ==
  \/ chainRule
  \/ chainElse
  \/ chainRuled
  \/ chainDefault
  \/ chainDefaulted
  \/ chainReturn

SpecElse == InitElse /\ [][NextElse]_vars

(* ---------------------------------------------------------------------- *)
(* The pools of frames and resolvers, on their own                         *)
(* ---------------------------------------------------------------------- *)
\* a sequence without its i-th element
Without(s, i) == SubSeq(s, 1, i - 1) \o SubSeq(s, i + 1, Len(s))
\* func (ep *evp) Put(e *eval): the frame goes to the pool as it is (a pool
\* that is full drops it, as sync.Pool may)
evpPut(fs, e) == IF Len(fs) < MaxPool THEN Append(fs, e) ELSE fs
\* the deferred function of getRules: resolver.e = nil, resolver.args = nil,
\* resolverPool.Put(resolver)
resolverPut(rs, r) ==
  IF Len(rs) < MaxPool THEN Append(rs, [r EXCEPT !.e = 0, !.args = 0]) ELSE rs
\* closure and child: *cpy = *e, then the fields of the new frame
poolCopy(e, cpy) == [e EXCEPT !.findOne = FALSE]

\* evalPool.Get() followed by e.closure or e.child on the frame in use:
\* the item is any frame of the pool, or a new one when the pool is empty
poolGet(kind, findOne) ==
  /\ Len(pol.live) <= MaxDepth
  /\ \E i \in 0..Len(pol.evalPool) :
       /\ (i = 0) = (pol.evalPool = <<>>)
       /\ LET item == IF i = 0 THEN ZeroEval ELSE pol.evalPool[i] IN
          pol' = [pol EXCEPT
                    !.evalPool = IF i = 0 THEN @ ELSE Without(@, i),
                    !.got = item,
                    !.live = Append(@,
                       [kind |-> kind,
                        e |-> [poolCopy(pol.live[Len(pol.live)].e, item)
                                 EXCEPT !.findOne = findOne]])]
  /\ UNCHANGED notPol

\* evalNot: child := evalPool.Get(); e.closure(negation, child)
poolNot ==
  /\ pol.live # <<>>
  /\ poolGet("not", FALSE)

\* evalValueRule: child := evalPool.Get(); e.child(rule.Body, child);
\* child.findOne = findOne
poolRule ==
  /\ pol.live # <<>>
  /\ \E findOne \in BOOLEAN : poolGet("rule", findOne)

\* the callback evalNot gives child.eval: child.defined = true
poolNotSolved ==
  /\ pol.live # <<>>
  /\ pol.live[Len(pol.live)].kind = "not"
  /\ ~pol.live[Len(pol.live)].e.defined
  /\ pol' = [pol EXCEPT !.live[Len(pol.live)].e.defined = TRUE]
  /\ UNCHANGED notPol

\* evalNot returns: with the error of child.eval, after the continuation
\* when the negated query had no solution, or after child.defined = false;
\* the deferred evalPool.Put(child) runs
poolNotDone ==
  /\ Len(pol.live) > 1
  /\ pol.live[Len(pol.live)].kind = "not"
  /\ \E failed \in BOOLEAN :
       LET child_ == pol.live[Len(pol.live)].e
           back == IF failed \/ ~child_.defined THEN child_
                   ELSE [child_ EXCEPT !.defined = FALSE]
       IN pol' = [pol EXCEPT !.live = SubSeq(@, 1, Len(@) - 1),
                             !.evalPool = evpPut(@, back)]
  /\ UNCHANGED notPol

\* evalValueRule returns: the deferred evalPool.Put(child) runs
poolRuleDone ==
  /\ Len(pol.live) > 1
  /\ pol.live[Len(pol.live)].kind = "rule"
  /\ pol' = [pol EXCEPT !.live = SubSeq(@, 1, Len(@) - 1),
                        !.evalPool = evpPut(@, pol.live[Len(pol.live)].e)]
  /\ UNCHANGED notPol

\* getRules: resolver := resolverPool.Get(); resolver.e = e;
\* resolver.args = args; the index is looked up
poolGetRules ==
  /\ pol.live # <<>>
  /\ pol.resolver = <<>>
  /\ \E i \in 0..Len(pol.resolverPool), args \in 0..1 :
       /\ (i = 0) = (pol.resolverPool = <<>>)
       /\ LET item == IF i = 0 THEN ZeroResolver ELSE pol.resolverPool[i] IN
          pol' = [pol EXCEPT
                    !.resolverPool = IF i = 0 THEN @ ELSE Without(@, i),
                    !.resolver = <<[item EXCEPT
                                      !.e = pol.query,
                                      !.args = IF args = 1 THEN pol.query
                                               ELSE item.args]>>]
  /\ UNCHANGED notPol

\* getRules returns: its deferred function runs
poolGetRulesDone ==
  /\ pol.resolver # <<>>
  /\ pol' = [pol EXCEPT !.resolver = <<>>,
                        !.resolverPool = resolverPut(@, pol.resolver[1])]
  /\ UNCHANGED notPol

\* the query is through and the next one begins, with a frame of its own
poolQuery ==
  /\ Len(pol.live) = 1
  /\ pol.resolver = <<>>
  /\ pol.query < MaxQueries
  /\ pol' = [pol EXCEPT !.query = @ + 1,
                        !.live = <<[kind |-> "query",
                                    e |-> [ZeroEval EXCEPT !.query = pol.query + 1]]>>]
  /\ UNCHANGED notPol

\* sync.Pool may drop any item at any time
poolCollect ==
  /\ \/ \E i \in 1..Len(pol.evalPool) :
          pol' = [pol EXCEPT !.evalPool = Without(@, i)]
     \/ \E i \in 1..Len(pol.resolverPool) :
          pol' = [pol EXCEPT !.resolverPool = Without(@, i)]
  /\ UNCHANGED notPol

InitPool ==
  /\ Idle
  /\ OnlyPol
  /\ pol = [NoPooled EXCEPT !.query = 1,
                            !.live = <<[kind |-> "query",
                                        e |-> [ZeroEval EXCEPT !.query = 1]]>>]

NextPool ==
  \/ poolNot
  \/ poolRule
  \/ poolNotSolved
  \/ poolNotDone
  \/ poolRuleDone
  \/ poolGetRules
  \/ poolGetRulesDone
  \/ poolQuery
  \/ poolCollect

SpecPool == InitPool /\ [][NextPool]_vars

(* ---------------------------------------------------------------------- *)
(* The query id factory, on its own                                        *)
(* ---------------------------------------------------------------------- *)
\* a faulty variant: the counter stays where it is
queryIDFactoryStuck(curr) == [id |-> curr, curr |-> curr]
\* func (f *queryIDFactory) Next(): the identifier returned and the counter
\* after the call
queryIDFactoryNext(curr) == [id |-> curr, curr |-> curr + 1]

\* closure and child on frame number p of the live ones:
\* cpy.queryID = cpy.queryIDFact.Next(); cpy.parent = e; a closure keeps the
\* bindings of e, a child has bindings of its own, newBindings(cpy.queryID)
qidFrame(p, own) ==
  LET made == queryIDFactoryNext(qid.curr)
      cpy == [id |-> made.id, parent |-> qid.live[p].id,
              bindings |-> IF own THEN made.id ELSE qid.live[p].bindings]
  IN [qid EXCEPT !.curr = made.curr, !.live = Append(@, cpy),
                 !.made = Append(@, cpy)]

\* the frame of the query itself takes the factory's first identifier
qidQuery ==
  /\ qid.made = <<>>
  /\ LET made == queryIDFactoryNext(qid.curr)
         root == [id |-> made.id, parent |-> made.id, bindings |-> made.id]
     IN qid' = [qid EXCEPT !.curr = made.curr, !.live = <<root>>,
                           !.made = <<root>>]
  /\ UNCHANGED notQid

\* e.closure(query, cpy), e any frame under evaluation
qidClosure ==
  /\ Len(qid.made) < MaxIds
  /\ \E p \in 1..Len(qid.live) : qid' = qidFrame(p, FALSE)
  /\ UNCHANGED notQid

\* e.child(query, cpy)
qidChild ==
  /\ Len(qid.made) < MaxIds
  /\ \E p \in 1..Len(qid.live) : qid' = qidFrame(p, TRUE)
  /\ UNCHANGED notQid

\* the evaluation of the last frame returns
qidReturn ==
  /\ Len(qid.live) > 1
  /\ qid' = [qid EXCEPT !.live = SubSeq(@, 1, Len(@) - 1)]
  /\ UNCHANGED notQid

InitQid ==
  /\ Idle
  /\ OnlyQid
  /\ qid = NoFactory

NextQid ==
  \/ qidQuery
  \/ qidClosure
  \/ qidChild
  \/ qidReturn

SpecQid == InitQid /\ [][NextQid]_vars

(* ---------------------------------------------------------------------- *)
(* A body of array references, on its own                                  *)
(* ---------------------------------------------------------------------- *)
\* e.bindings.Plug(e.ref[e.pos]): the number at the position, NoIdx for a
\* variable without a value
bodPlug(t, b) == IF t.k = "num" THEN t.n ELSE b[t.n]
\* evalTerm.get on an array: the element at a number within the array
bodGet(len, i) == i >= 0 /\ i < len
\* a faulty variant: the binding stays after the continuation returned
bodKeep(b, v) == b
\* undo.Undo(): the variable is unbound again
bodUndo(b, v) == [b EXCEPT ![v] = NoIdx]

\* evalExpr: past the last expression the body has a solution and the
\* continuation runs; otherwise the expression at index is evaluated, with
\* e.next as its continuation. evalTerm.eval: a ground position goes on
\* with the element, if there is one; an unbound one is enumerated
bodEvalExpr ==
  /\ bod.pc = "expr"
  /\ IF bod.index > Len(bod.query)
     THEN LET n == Len(bod.sols) + 1
              out == IF n <= Len(bod.plan) THEN bod.plan[n] ELSE NoErr
          IN bod' = [bod EXCEPT !.sols = Append(@, bod.bindings),
                                !.err = out, !.pc = "ret"]
     ELSE LET ex == bod.query[bod.index]
              plugged == bodPlug(ex.t, bod.bindings)
              seen == Append(bod.evals, [index |-> bod.index,
                                         bindings |-> bod.bindings])
          IN IF plugged # NoIdx
             THEN IF bodGet(ex.len, plugged)
                  THEN bod' = [bod EXCEPT !.evals = seen,
                                          !.loops = Append(@, [i |-> 0, enum |-> FALSE]),
                                          !.deferred = Append(@, NoErr),
                                          !.index = @ + 1]
                  ELSE bod' = [bod EXCEPT !.evals = seen, !.err = NoErr,
                                          !.pc = "ret"]
             ELSE bod' = [bod EXCEPT !.evals = seen,
                                     !.loops = Append(@, [i |-> 0, enum |-> TRUE]),
                                     !.deferred = Append(@, NoErr),
                                     !.pc = "loop"]
  /\ UNCHANGED notBod

\* evalTerm.enumerate on an array: for i := range v.Len() the variable is
\* bound to i and e.next runs the rest of the body; after the loop the first
\* deferred early exit is returned
bodEnumerate ==
  /\ bod.pc = "loop"
  /\ LET d == Len(bod.loops)
         ex == bod.query[bod.index]
     IN IF bod.loops[d].i < ex.len
        THEN bod' = [bod EXCEPT
                       !.binds = Append(@, [v |-> ex.t.n, to |-> bod.loops[d].i,
                                            was |-> bod.bindings[ex.t.n]]),
                       !.bindings[ex.t.n] = bod.loops[d].i,
                       !.index = @ + 1, !.pc = "expr"]
        ELSE bod' = [bod EXCEPT !.loops = SubSeq(@, 1, d - 1),
                                !.deferred = SubSeq(@, 1, d - 1),
                                !.err = bod.deferred[d], !.pc = "ret"]
  /\ UNCHANGED notBod

\* the rest of the body has returned: e.index-- in next; in enumerate the
\* binding is undone and the error handled, a deferred early exit being
\* kept for the end of the loop
bodReturned ==
  /\ bod.pc = "ret"
  /\ LET d == Len(bod.loops) IN
     IF d = 0
     THEN bod' = [bod EXCEPT !.pc = "done"]
     ELSE IF ~bod.loops[d].enum
     THEN bod' = [bod EXCEPT !.index = @ - 1,
                             !.loops = SubSeq(@, 1, d - 1),
                             !.deferred = SubSeq(@, 1, d - 1)]
     ELSE LET v == bod.query[bod.index - 1].t.n
              h == termHandleErr(bod.deferred[d], bod.err)
          IN bod' = [bod EXCEPT
                       !.index = @ - 1,
                       !.bindings = bodUndo(@, v),
                       !.deferred[d] = h.deferred,
                       !.err = h.err,
                       !.pc = IF h.err # NoErr THEN "ret" ELSE "loop",
                       !.loops = IF h.err # NoErr THEN SubSeq(@, 1, d - 1)
                                 ELSE [@ EXCEPT ![d].i = @ + 1]]
  /\ UNCHANGED notBod

\* the terms at the position of a reference: the body's variables and the
\* numbers an array of the greatest length has as indices, and one beyond
BodTerms ==
  {[k |-> "var", n |-> v] : v \in 1..MaxBody}
  \cup {[k |-> "num", n |-> c] : c \in 0..MaxArr}
\* what the continuation returns for the first solution it is given (nil
\* for the others)
BodPlans == UNION {[1..n -> {NoErr, <<"D">>, <<"Halt">>}] : n \in 0..1}

InitBody ==
  /\ Idle
  /\ OnlyBod
  /\ \E n \in 1..MaxBody :
       \E q \in [1..n -> [len : 0..MaxArr, t : BodTerms]], plan \in BodPlans :
         bod = [NoBody EXCEPT !.pc = "expr", !.query = q, !.index = 1,
                              !.bindings = [v \in 1..MaxBody |-> NoIdx],
                              !.free = [v \in 1..MaxBody |-> NoIdx],
                              !.plan = plan]

NextBody ==
  \/ bodEvalExpr
  \/ bodEnumerate
  \/ bodReturned

SpecBody == InitBody /\ [][NextBody]_vars

(* ---------------------------------------------------------------------- *)
(* The save stack and the save set, on their own                           *)
(* ---------------------------------------------------------------------- *)
\* the operations that push and pop saved expressions, and the ones that
\* bracket a query of their own
SaveOps ==
  {"saveExpr", "saveExprMarkUnknowns", "saveUnify", "saveCall",
   "saveInlinedNegatedExprs"}
BracketOps ==
  {"evalNotPartial", "evalFunc.partialEvalSupportRule",
   "evalVirtualComplete.partialEvalSupportRule"}
\* the expressions an operation pushes on the save stack: len(exprs) for
\* saveInlinedNegatedExprs, one for the other save operations
savExprs(op, k) ==
  IF op = "saveInlinedNegatedExprs" THEN k ELSE IF op \in SaveOps THEN 1 ELSE 0
\* the pushes an operation makes on the save set: one for each pair of
\* getSavePairsFromExpr or getSavePairsFromTerm, none in saveExpr and
\* saveInlinedNegatedExprs, the arguments in evalFunc.partialEvalSupportRule
savPairs(op, pairs) ==
  IF op \in {"saveExprMarkUnknowns", "saveUnify", "saveCall"} THEN pairs
  ELSE IF op = "evalFunc.partialEvalSupportRule" THEN 1 ELSE 0
\* a faulty variant: one expression stays on the save stack
savPopsShort(o) == o.exprs - 1
\* the Pops of the save stack after iter(): one in saveExpr,
\* saveExprMarkUnknowns, saveUnify and saveCall, `for range exprs` in
\* saveInlinedNegatedExprs
savPops(o) == o.exprs
\* saveSet.Push, and pops of them: `for range pops { e.saveSet.Pop() }`
RECURSIVE setPushN(_, _, _)
setPushN(s, id, n) == IF n = 0 THEN s ELSE setPushN(Append(s, <<id, n>>), id, n - 1)
setPopN(s, n) == SubSeq(s, 1, Len(s) - n)
\* saveStack.Push of the n expressions of operation id
RECURSIVE ssPushN(_, _, _)
ssPushN(ss, id, n) ==
  IF n = 0 THEN ss ELSE ssPushN(ssPush(ss, <<id, n>>), id, n - 1)
\* the innermost bracket under way, 0 when the query itself is evaluated
savBracket ==
  LET bs == {i \in 1..Len(sav.ops) : sav.ops[i].op \in BracketOps} IN
    IF bs = {} THEN 0 ELSE CHOOSE i \in bs : \A j \in bs : j <= i

\* a save operation begins: the pairs go to the save set, the expressions
\* to the save stack, and iter() is called
savPush ==
  /\ sav.n < MaxOps
  /\ \E op \in SaveOps, k \in 1..2, pairs \in 0..1 :
       /\ (op = "saveInlinedNegatedExprs") \/ k = 1
       /\ (savPairs(op, pairs) = pairs) \/ pairs = 0
       /\ sav' = [sav EXCEPT
            !.n = @ + 1,
            !.set = setPushN(@, sav.n + 1, savPairs(op, pairs)),
            !.stack = ssPushN(@, sav.n + 1, savExprs(op, k)),
            !.ops = Append(@, [op |-> op, id |-> sav.n + 1,
                               exprs |-> savExprs(op, k),
                               pairs |-> savPairs(op, pairs),
                               before |-> [stack |-> sav.stack, set |-> sav.set]])]
  /\ UNCHANGED notSav

\* saveExprMarkUnknowns: getDeclArgsLen fails and the error is returned
savDeclArgsErr ==
  /\ sav.n < MaxOps
  /\ sav' = [sav EXCEPT
       !.n = @ + 1,
       !.done = Append(@, [op |-> "saveExprMarkUnknowns", id |-> sav.n + 1,
                           err |-> TRUE,
                           before |-> [stack |-> sav.stack, set |-> sav.set],
                           after |-> [stack |-> sav.stack, set |-> sav.set]])]
  /\ UNCHANGED notSav

\* evalNotPartial and the partialEvalSupportRule variants begin:
\* e.saveStack.PushQuery(nil), for a function also e.saveSet.Push(args),
\* and the child is evaluated
savPushQuery ==
  /\ sav.n < MaxOps
  /\ \E op \in BracketOps :
       sav' = [sav EXCEPT
            !.n = @ + 1,
            !.set = setPushN(@, sav.n + 1, savPairs(op, 0)),
            !.stack = Append(@, <<>>),
            !.ops = Append(@, [op |-> op, id |-> sav.n + 1, exprs |-> 0,
                               pairs |-> savPairs(op, 0),
                               before |-> [stack |-> sav.stack, set |-> sav.set]])]
  /\ UNCHANGED notSav

\* the expressions the save operations numbered in ids have pushed, in the
\* order of the operations under way
RECURSIVE SavedBy(_, _)
SavedBy(ids, i) ==
  IF i > Len(sav.ops) THEN <<>>
  ELSE (IF i \in ids
        THEN ssPeek(ssPushN(<<<<>>>>, sav.ops[i].id, sav.ops[i].exprs))
        ELSE <<>>) \o SavedBy(ids, i + 1)

\* the query under evaluation has a solution and its continuation runs: the
\* callback of a partialEvalSupportRule takes the query off the save stack
\* (PopQuery), inserts the support rule and puts the query back
\* (PushQuery(current)); the callback of evalNotPartial reads it (Peek)
savSolution ==
  /\ sav.ops # <<>>
  /\ Len(sav.seen) < 2
  /\ LET current == ssPeek(sav.stack)
         popped == SubSeq(sav.stack, 1, Len(sav.stack) - 1)
         during == IF savBracket = 0 \/ sav.ops[savBracket].op = "evalNotPartial"
                   THEN sav.stack ELSE popped
     IN sav' = [sav EXCEPT
          !.stack = IF during = popped THEN Append(popped, current) ELSE @,
          !.seen = Append(@, [query |-> current, inserting |-> during,
                              bracket |-> savBracket,
                              saved |-> SavedBy({i \in 1..Len(sav.ops) :
                                                   i > savBracket}, 1)])]
  /\ UNCHANGED notSav

\* the operation begun last returns, with or without an error: what it
\* pushed is popped
savReturn ==
  /\ sav.ops # <<>>
  /\ \E err \in BOOLEAN :
       LET o == sav.ops[Len(sav.ops)]
           stack1 == IF o.op \in BracketOps
                     THEN SubSeq(sav.stack, 1, Len(sav.stack) - 1)
                     ELSE ssPopN(sav.stack, savPops(o))
           set1 == setPopN(sav.set, o.pairs)
       IN sav' = [sav EXCEPT
            !.stack = stack1, !.set = set1,
            !.ops = SubSeq(@, 1, Len(@) - 1),
            !.done = Append(@, [op |-> o.op, id |-> o.id, err |-> err,
                                before |-> o.before,
                                after |-> [stack |-> stack1, set |-> set1]])]
  /\ UNCHANGED notSav

InitSave ==
  /\ Idle
  /\ OnlySav
  /\ sav = [NoSaved EXCEPT !.stack = <<<<>>>>]

NextSave ==
  \/ savPush
  \/ savDeclArgsErr
  \/ savPushQuery
  \/ savSolution
  \/ savReturn

SpecSave == InitSave /\ [][NextSave]_vars

(* ---------------------------------------------------------------------- *)
(* Properties                                                              *)
(* ---------------------------------------------------------------------- *)
NonPartial == ~prog.partial
C7f == CallOut("f", Num(1), FreshVar)

\* C1: a non-partial evalNot whose negated query ended without error has
\* invoked its continuation exactly once when that query had no solution and
\* not at all when it had one or more.
C1_NotOnce ==
  (NonPartial /\ ev.op = "evalNot" /\ ~ev.bodyErr) =>
    /\ ev.sols = 0 => ev.calls = 1
    /\ ev.sols > 0 => ev.calls = 0

\* C2: an evaluation of a complete rule set that found no cached entry and
\* in which successful bodies plugged two different head values ends with
\* the complete-document conflict error.
C2_Conflict ==
  (NonPartial /\ ev.op = "evalValue" /\ Cardinality(ev.vals) >= 2) =>
    ev.err = <<"completeDocConflict">>
C2_Witness ==
  /\ NonPartial /\ ev.op = "evalValue" /\ Cardinality(ev.vals) = 2
  /\ ev.err = <<"completeDocConflict">>

\* C3: a non-partial function call whose rules produced two different values
\* ends with the function conflict error; whatever the number of rules that
\* produced a value, the continuation is invoked at most once; and the
\* default rule is evaluated only when no other rule produced a value.
C3_Function ==
  (NonPartial /\ ev.op = "evalFunc") =>
    LET Falsy == ev.out = NoTerm /\ ev.vals = {Bool(FALSE)} IN
    /\ Cardinality(ev.vals) >= 2 => ev.err = <<"functionConflict">>
    /\ (Cardinality(ev.vals) = 1 /\ ev.sols >= 2 /\ ~Falsy) => ev.calls = 1
    /\ (Cardinality(ev.vals) <= 1 /\ ev.calls = 0) =>
         ev.err # <<"functionConflict">>
    /\ ev.calls <= 1
    /\ ev.default => ev.vals = {}
C3_Witness ==
  /\ NonPartial /\ ev.op = "evalFunc" /\ ev.sols = 2
  /\ Cardinality(ev.vals) = 1 /\ ev.calls = 1 /\ ev.err = NoErr

\* C4: in one cache scope, once an evaluation of a key has stored a value no
\* later evaluation of that key misses: it hits, with the stored value; every
\* rule body is evaluated on behalf of an evaluation that missed; the first
\* evaluation of a key in a scope misses; and the hit and miss counters count
\* the evaluations that hit and missed.
Log == vlog.log
Entries(kind) == {i \in 1..Len(Log) : Log[i].kind = kind}
Nth(kind, n) ==
  CHOOSE i \in Entries(kind) :
    Cardinality({j \in Entries(kind) : j < i}) = n - 1
Same(i, j) == Log[i].key = Log[j].key /\ Log[i].scope = Log[j].scope
C4_Cache ==
  NonPartial =>
    /\ hits = Cardinality(Entries("hit"))
    /\ misses = Cardinality(Entries("miss"))
    /\ \A i \in Entries("put") : \A j \in Entries("miss") :
         (i < j /\ Same(i, j)) => Log[i].val = NoTerm
    /\ \A i \in Entries("put") : \A j \in Entries("hit") :
         (i < j /\ Same(i, j) /\ Log[i].val # NoTerm) => Log[j].val = Log[i].val
    /\ \A j \in Entries("body") :
         /\ Log[j].by \in Entries("miss") /\ Log[j].by < j
         /\ Log[Log[j].by].key = Log[j].key
    /\ \A j \in Entries("hit") :
         \E i \in Entries("miss") : i < j /\ Same(i, j)
C4_Witness ==
  /\ NonPartial /\ stack = <<>> /\ hits = 1 /\ misses = 1
  /\ prog.query = <<C7f, C7f>>
  /\ \E i \in Entries("miss") : \E j \in Entries("hit") :
       /\ i < j /\ Same(i, j) /\ Log[j].val # NoTerm
       /\ Cardinality({b \in Entries("body") : Same(i, b)}) = 1

\* C5: when evalWith returns, the input, the data, the function mocks and
\* the depths of the cache, target and inlining stacks are those at entry,
\* and evalWithPop has run once for every evalWithPush.
C5_Restored ==
  ev.op = "evalWith" => (ev.pre = ev.post /\ ev.push = ev.pop)
C5_Witness ==
  /\ ev.op = "evalWith" /\ ev.push >= 2 /\ ev.pre = ev.post
  /\ ev.pre.input # NoTerm

\* C6: an expression that follows a `with` expression in the same query is
\* evaluated with the input, data, mocks and stack depths that were in force
\* before the `with` expression.
C6_Scoped ==
  (Running("evalExpr", "start")
     /\ frames[cur.e].index < Len(frames[cur.e].query)) =>
    \A i \in 1..(top - 1) :
      (stack[i].fn = "evalWith" /\ stack[i].e = cur.e
         /\ stack[i].gidx < frames[cur.e].index)
      => Context(frames[cur.e]) = stack[i].gpre

\* C7: a cache hit returns a value that was stored in the same cache scope,
\* under the same input, data and function mocks; and the query
\* `f(1, z) with input as v; f(1, z2) with input as w` ends with no hit, two
\* misses, and each call's value computed from its own input.
C7_Isolated ==
  NonPartial =>
    /\ \A j \in Entries("hit") :
         \E i \in Entries("put") :
           /\ i < j /\ Same(i, j) /\ Log[i].val = Log[j].val
           /\ Log[i].ctx = Log[j].ctx
    /\ \A v, w \in Nums :
         (stack = <<>> /\ ret = NoErr
            /\ prog.query = <<With(C7f, WithInput(v)), With(C7f, WithInput(w))>>)
         => /\ hits = 0 /\ misses = 2
            /\ Cardinality(Entries("put")) = 2
            /\ Log[Nth("put", 1)].val = Num(1 + v.n)
            /\ Log[Nth("put", 2)].val = Num(1 + w.n)
C7_Witness ==
  /\ NonPartial /\ stack = <<>> /\ ret = NoErr /\ hits = 0 /\ misses = 2
  /\ prog.query = <<With(C7f, WithInput(Num(1))), With(C7f, WithInput(Num(2)))>>
  /\ Cardinality(Entries("put")) = 2

\* C8: a non-partial evalEvery invokes its continuation at most once, never
\* and without error for a domain that is no array, object or set, and, when
\* no body evaluation failed, exactly when the domain is such a collection
\* and the body had a solution for each of its elements.
C8_Every ==
  (NonPartial /\ ev.op = "evalEvery") =>
    LET iterable == ev.domk \in {"array", "object", "set"} IN
    /\ ev.calls <= 1
    /\ ~iterable => (ev.calls = 0 /\ ev.err = NoErr)
    /\ ~ev.bodyErr =>
         (ev.calls = 1 <=>
            (iterable /\ Len(ev.dones) = ev.n
               /\ \A i \in 1..Len(ev.dones) : ev.dones[i]))
C8_Witness ==
  /\ NonPartial /\ ev.op = "evalEvery" /\ ev.calls = 1 /\ ev.n = 2
  /\ ev.dones = <<TRUE, TRUE>>

\* the leaves the rule contributes to the document, under its own path
Leaves(r) == {[path |-> r.path \o l.path, val |-> l.val] : l \in r.val}
Comparable(a, b) == HasPrefix(a, b) \/ HasPrefix(b, a)
Reduced == Len(red.rules) = 2 /\ (red.i > Len(red.rules) \/ red.err)
R1 == red.rules[1]
R2 == red.rules[2]

\* C9: reducing two rules whose paths are not prefixes of one another gives
\* the one object holding the leaves of both, without error; reducing two
\* rules of the same path gives a single entry and no error when their values
\* are equal, and the key conflict error when they differ.
C9_Merge ==
  Reduced =>
    /\ ~Comparable(R1.path, R2.path) =>
         (~red.err /\ red.result = Leaves(R1) \cup Leaves(R2)
            /\ red.exists = <<FALSE, FALSE>>)
    /\ (R1.path = R2.path /\ R1.val = R2.val) =>
         (~red.err /\ red.result = Leaves(R1)
            /\ red.exists = <<FALSE, TRUE>>)
    /\ (R1.path = R2.path /\ R1.val # R2.val) => red.err
C9_Witness ==
  /\ Reduced /\ ~red.err /\ Len(R1.path) = 2 /\ Len(R2.path) = 2
  /\ R1.path[1] = R2.path[1] /\ R1.path[2] # R2.path[2]
  /\ red.result = Leaves(R1) \cup Leaves(R2)
  /\ Cardinality(red.result) >= 2

\* C10: reducing two rules of which one's path is a strict prefix of the
\* other's ends with the key conflict error, in either order and whatever
\* the values.
C10_Overlap ==
  Reduced =>
    ((R1.path # R2.path /\ Comparable(R1.path, R2.path)) => red.err)

IsCancel(err) == err # <<>> /\ err[1] = "Cancel"
IsFatal(err) ==
  err # <<>> /\ err[1] \in {"Cancel", "completeDocConflict",
                            "functionConflict", "Internal"}
\* the step returns from the running call and calls nothing
Unwinds == Len(stack') < Len(stack)

\* C11: an evalExpr entered with the token cancelled returns the Cancel
\* error at once, invoking neither its continuation nor a built-in; from
\* then on every step returns that error one frame further up; and no
\* built-in is invoked once the token is cancelled.
C11_Cancelled ==
  [][/\ (Running("evalExpr", "start") /\ cancel # "none") =>
          (ret' = CancelErr(cancel) /\ Unwinds /\ builtinCalls' = builtinCalls)
     /\ IsCancel(ret) => (ret' = ret /\ Unwinds)
     /\ cancel # "none" => builtinCalls' = builtinCalls]_vars

\* C12: once a call has returned a fatal error, every step returns that
\* error one frame further up: no expression is evaluated and no
\* continuation is invoked.
C12_Fatal == [][IsFatal(ret) => (ret' = ret /\ Unwinds)]_vars

\* C13: when a unification returns, both bindings frames are what they were
\* before the call, whatever the iterator returned; every bind has been
\* undone exactly once; a binding is in place only while the iterator it was
\* made for runs, and is gone before enumerate tries its next element.
C13_Undone ==
  /\ uni.stk = <<>> => (uni.b = uni.b0 /\ uni.binds = uni.undos)
  /\ uni.binds - uni.undos =
       Cardinality({i \in DOMAIN uni.stk : uni.stk[i].pc = "bound"})
  /\ (uni.stk # <<>> /\ UTop.fn = "enumerate" /\ UTop.pc = "start") =>
       uni.b = uni.b0
\* two arrays have been unified, two variables bound on the way, the
\* iterator has run with both bindings and returned an error
C13_Witness ==
  /\ uni.stk = <<>> /\ uni.a.k = "arr" /\ uni.b2.k = "arr"
  /\ uni.binds = 2 /\ uni.calls = 1 /\ uni.ret = <<"Internal">>
  /\ \E i \in 1..Len(uni.seen) :
       Cardinality({uk \in UKeys : uni.seen[i][uk] # uni.b0[uk]}) = 2

\* C14: evaluating an expression with tracing enabled and with tracing
\* disabled gives the continuation the same calls, each with the same
\* inlining-control state and the same saved expression, makes the same
\* choice between inlining and support, and returns the same error; only the
\* trace events differ.
C14_Trace ==
  (stp.run[TRUE].pc = "done" /\ stp.run[FALSE].pc = "done") =>
     /\ stp.run[TRUE].conts = stp.run[FALSE].conts
     /\ stp.run[TRUE].err = stp.run[FALSE].err
     /\ stp.run[TRUE].ic = stp.run[FALSE].ic
     /\ stp.run[TRUE].support = stp.run[FALSE].support

\* C15: an object comprehension whose body has two solutions with the same
\* key and different values ends in an object key conflict, materialised
\* directly or through the comprehension cache; without such a pair there is
\* no error and the object holds every solution's key and value.
C15_KeyConflict ==
  LET mine == {i \in 1..Len(cpr.sols) : cpr.sols[i].index = cpr.at}
      clash == \E i, j \in mine : /\ cpr.sols[i].key = cpr.sols[j].key
                                  /\ cpr.sols[i].val # cpr.sols[j].val
  IN cpr.pc = "done" =>
       IF clash THEN cpr.err = <<"objectDocKeyConflict">>
       ELSE /\ cpr.err = NoErr
            /\ \A i \in mine :
                 Get(cpr.result, cpr.sols[i].key) = Scalar(cpr.sols[i].val)

\* C16: the iterator of a bare term invokes the continuation exactly when
\* the term's plugged value is not the literal false, and returns nil
\* without invoking it otherwise; so a query of one literal has one solution
\* unless the literal is false (null, 0, "" and the empty collections
\* succeed), and a query of one reference to an undefined rule has none.
C16_BareTerm ==
  /\ [][Running("stepTerm", "start") =>
          IF cur.val = Bool(FALSE)
          THEN Unwinds /\ ret' = NoErr /\ results' = results
          ELSE stack' = CallFrom(stack, "tail",
                                 Invoke(stack[cur.env].iter, stack[cur.env].e))]_vars
  /\ [](stack = <<>> /\ Len(prog.query) = 1 /\ ~prog.query[1].neg =>
          /\ prog.query[1].k = "lit" =>
               (ret = NoErr /\ results = IF prog.query[1].v = Bool(FALSE)
                                         THEN 0 ELSE 1)
          /\ (prog.query[1] = Ref("q") /\ NonPartial) =>
               (ret = NoErr /\ results = 0))
\* the query `null` has run and has had its one solution
C16_Witness ==
  stack = <<>> /\ prog.query = <<Lit(Null)>> /\ results = 1 /\ ret = NoErr

\* C17: when a built-in returns an error that is no Halt, evalBuiltin.eval
\* appends it to the built-in errors, once, and returns nil; an error of the
\* continuation comes back as it was and is not appended, and neither is
\* the error inside a Halt.
C17_BuiltinError ==
  ev.op = "evalBuiltin" =>
    /\ ev.kind = "error" => (ev.err = NoErr /\ ev.added = 1)
    /\ ev.iterErr # NoErr => (ev.err = ev.iterErr /\ ev.added = 0)
    /\ ev.kind = "halt" => (ev.err = <<"Internal">> /\ ev.added = 0)
    /\ (ev.kind \in {"value", "false"} /\ ev.iterErr = NoErr) =>
         (ev.err = NoErr /\ ev.added = 0)
\* a built-in has failed: its error is the one on the list, nil is returned
C17_Witness ==
  /\ ev.op = "evalBuiltin" /\ ev.kind = "error" /\ ev.err = NoErr
  /\ builtinErrors = <<<<"BuiltinErr">>>> /\ ret = NoErr

\* r is what the merge of a and b is to be
RECURSIVE Merged(_, _, _)
Merged(a, b, r) ==
  IF ~(IsObj(a) /\ IsObj(b)) THEN r = a
  ELSE /\ IsObj(r)
       /\ DOMAIN r.f = DOMAIN a.f \cup DOMAIN b.f
       /\ \A k \in DOMAIN r.f :
            IF k \notin DOMAIN b.f THEN r.f[k] = a.f[k]
            ELSE IF k \notin DOMAIN a.f THEN r.f[k] = b.f[k]
            ELSE Merged(a.f[k], b.f[k], r.f[k])
\* C18: merge(a, b) succeeds; of two objects it has the keys of both, with
\* the operand's value for a key of one operand, the merge of the two values
\* for a key of both whose values are objects, and a's value for a key of
\* both otherwise; when a or b is no object it is a; a and b are unchanged.
C18_Merge ==
  mrg.pc = "done" =>
    /\ mrg.ok
    /\ Merged(mrg.a0, mrg.b0, mrg.result)
    /\ mrg.a = mrg.a0 /\ mrg.b = mrg.b0
\* both operands hold an object under key 1, a with a key b has not and b
\* with a key a has not, and the result holds both
C18_Witness ==
  /\ mrg.pc = "done" /\ mrg.ok
  /\ mrg.a = MObj(1 :> MObj(1 :> MNum(1)))
  /\ mrg.b = MObj(1 :> MObj(2 :> MNum(MaxVal)) @@ 2 :> MNum(1))
  /\ mrg.result =
       MObj(1 :> MObj(1 :> MNum(1) @@ 2 :> MNum(MaxVal)) @@ 2 :> MNum(1))

\* the bodies with one complemented expression of each query, in order
Combos(queries, withs) ==
  {s \in [1..Len(queries) -> UNION {{[Complement(q[j]) EXCEPT !.with = withs] :
                                         j \in 1..Len(q)} :
                                      q \in {queries[i] : i \in 1..Len(queries)}}] :
     \A i \in 1..Len(queries) :
       \E j \in 1..Len(queries[i]) :
         s[i] = [Complement(queries[i][j]) EXCEPT !.with = withs]}
\* C19: when the residual queries of a negation's positive form are inlined
\* and the continuation returns no error, the continuation has run once for
\* each element of the complemented product, |Q1| * ... * |Qn| times, each
\* time with the save stack's query extended by one complemented expression
\* of each Qi, each combination once, and the save stack is as it was after
\* each of these calls.
C19_Product ==
  (prd.pc = "done" /\ prd.kind = "product" /\ prd.err = NoErr) =>
    LET base == ssPeek(prd.base)
        ext(i) == SubSeq(prd.calls[i], Len(base) + 1, Len(prd.calls[i]))
    IN /\ Len(prd.calls) = Size(prd.queries)
       /\ \A i \in 1..Len(prd.calls) :
            SubSeq(prd.calls[i], 1, Len(base)) = base
       /\ {ext(i) : i \in 1..Len(prd.calls)}
            = Combos(prd.queries, updateSavedMocks(prd.withs))
       /\ Cardinality({ext(i) : i \in 1..Len(prd.calls)}) = Len(prd.calls)
       /\ Len(prd.posts) = Len(prd.calls)
       /\ \A i \in 1..Len(prd.posts) : prd.posts[i] = prd.base
       /\ prd.saveStack = prd.base
\* two residual queries of two expressions each have been inlined: four
\* calls of the continuation
C19_Witness ==
  /\ prd.pc = "done" /\ prd.kind = "product" /\ prd.err = NoErr
  /\ Len(prd.queries) = 2 /\ Len(prd.queries[1]) = 2 /\ Len(prd.queries[2]) = 2
  /\ Len(prd.calls) = 4 /\ prd.base # <<<<>>>>

\* C20: in partial mode no built-in is invoked for a call on the unknown
\* input; a query of such calls alone ends with one residual query, the
\* calls themselves in order, saved while the continuation ran and popped
\* afterwards; `input > v` alone gives one residual query of that one
\* expression.
C20_SavedCall ==
  /\ prog.partial => builtinCalls = 0
  /\ (/\ prog.partial /\ stack = <<>> /\ prog.query # <<>>
      /\ \A i \in 1..Len(prog.query) :
           prog.query[i].k = "icall" /\ ~prog.query[i].neg
           /\ prog.query[i].with = <<>>) =>
       /\ ret = NoErr /\ results = 1
       /\ partials = <<prog.query>>
       /\ saveStack = <<<<>>>>
\* the query `input > 1` has been partially evaluated
C20_Witness ==
  /\ prog.partial /\ stack = <<>> /\ prog.query = <<InputGt(Num(1))>>
  /\ partials = <<<<InputGt(Num(1))>>>> /\ builtinCalls = 0

\* C21: a query of one reference to a complete rule has at most one
\* solution; when the rules c := a, c := b (or the two body solutions of m)
\* give the same value, not false, it has exactly one, with one virtual-cache
\* miss and no hit.
C21_OneSolution ==
  (NonPartial /\ Len(prog.query) = 1 /\ prog.query[1] \in {Ref(n) : n \in RuleNames}) =>
    /\ results <= 1
    /\ (/\ stack = <<>> /\ prog.query[1] \in {Ref("c"), Ref("m")}
        /\ prog.a = prog.b /\ prog.a # Bool(FALSE)) =>
         (ret = NoErr /\ results = 1 /\ misses = 1 /\ hits = 0)
\* c := 1 and c := 1 have both succeeded; one solution, one miss
C21_Witness ==
  /\ NonPartial /\ stack = <<>> /\ prog.query = <<Ref("c")>>
  /\ prog.a = Num(1) /\ prog.b = Num(1)
  /\ results = 1 /\ misses = 1 /\ hits = 0 /\ ret = NoErr
  /\ ev.op = "evalValue" /\ ev.vals = {Num(1)}

\* a term with no variable in it
UGround(t) == t.k # "var" /\ \A i \in DOMAIN t.elems : t.elems[i].k # "var"
RuleActs == {i \in DOMAIN stack : stack[i].fn \in {"evalValueRule", "evalOneRule"}}
\* C23: without partial evaluation a frame with findOne returns an early
\* exit as soon as its continuation has returned nil at the end of its body,
\* so the continuation of a rule body evaluated with findOne runs at most
\* once per evaluation of the rule; under partial evaluation the end of a
\* body raises no early exit and every solution of the body is enumerated;
\* a rule body gets findOne only when the index result reports EarlyExit
\* and the evaluator's earlyExit flag is on
C23_FindOne ==
  /\ [][(Running("evalExpr", "iterated") /\ ret = NoErr /\ frames[cur.e].findOne)
          => ret' = (IF prog.partial THEN NoErr ELSE <<"E">>)]_vars
  /\ [](\A i \in RuleActs :
          /\ (NonPartial /\ stack[i].findOne) => stack[i].gcalls <= 1
          /\ stack[i].findOne =>
               (IndexEarlyExit(prog.a, prog.b, stack[i].ref) /\ prog.earlyExit)
          /\ (stack[i].child # 0 /\ stack[i].pc = "evaluated") =>
               frames[stack[i].child].findOne = stack[i].findOne)
  /\ [](prog.partial => (~IsEarlyExit(ret) /\ ~IsDeferredEarlyExit(ret)))
  /\ []((prog.partial /\ Running("evalValueRule", "evaluated") /\ cur.ref = "s") =>
          cur.gcalls = 2)
C23_Witness ==
  /\ NonPartial /\ prog.earlyExit /\ prog.a # prog.b
  /\ Running("evalValueRule", "evaluated") /\ cur.ref = "s"
  /\ cur.findOne /\ cur.gcalls = 1 /\ IsEarlyExit(ret)

\* the candidates of the position, and the first whose continuation returns
\* an error that is no deferred early exit (0: none)
Candidates == 1..(enm.n + enm.node)
Stops == {k \in Candidates : enm.plan[k] \in {"E", "err"}}
Deferrals == {k \in Candidates : enm.plan[k] = "D"}
Least(S) == CHOOSE x \in S : \A y \in S : x <= y
\* C24: a deferred early exit returned by the continuation of one candidate
\* of a non-ground reference position does not end the enumeration: every
\* remaining candidate (array indices, object keys, set members, rule-subtree
\* children) is tried up to the first one whose continuation returns an early
\* exit or another error, which is returned at once; when there is none the
\* first deferred early exit is returned after the last candidate
C24_Deferred ==
  enm.pc = "done" =>
    IF Stops # {}
    THEN /\ enm.tried = [k \in 1..Least(Stops) |-> k]
         /\ enm.ret = enumOutcome(Least(Stops))
    ELSE /\ enm.tried = [k \in Candidates |-> k]
         /\ enm.ret = (IF Deferrals # {} THEN enumOutcome(Least(Deferrals))
                       ELSE NoErr)
\* the part of C24 that evalTerm.enumerate is about
C24_Term == enm.fn = "term" => C24_Deferred

\* the head terms of the solutions whose index key is at, in solution order
RECURSIVE HeadsAt(_, _)
HeadsAt(sols, at) ==
  IF sols = <<>> THEN <<>>
  ELSE (IF sols[1].index = at THEN <<sols[1].head>> ELSE <<>>)
       \o HeadsAt(Tail(sols), at)
\* the comprehension materialised directly under the index-key value at
Materialised(kind, sols, at) ==
  IF kind = "array" THEN ArrayTerm(HeadsAt(sols, at))
  ELSE SetTerm({HeadsAt(sols, at)[i] : i \in 1..Len(HeadsAt(sols, at))})
\* C25: an array or set comprehension that has a comprehension index
\* evaluates, through the cache, to what its direct materialisation under
\* the current index-key values gives: an array of every head term in
\* solution order, duplicates kept, or a set holding each once; and the cache
\* table is built at most once in a cache scope: one build, then hits
C25_Cached ==
  cch.indexed =>
    /\ \A n \in 1..Len(cch.results) :
         cch.results[n] = Materialised(cch.kind, cch.sols, cch.ats[n])
    /\ cch.builds <= 1
    /\ cch.pc = "done" =>
         (cch.builds = 1 /\ cch.hits = Len(cch.ats) - 1 /\ cch.skips = 0)
C25_Witness ==
  /\ cch.indexed /\ cch.pc = "done" /\ cch.kind = "array"
  /\ cch.sols = <<[index |-> 1, head |-> 1], [index |-> 2, head |-> 1],
                  [index |-> 1, head |-> 1]>>
  /\ cch.ats = <<1, 2, 1>>
  /\ cch.results = <<ArrayTerm(<<1, 1>>), ArrayTerm(<<1>>), ArrayTerm(<<1, 1>>)>>
  /\ cch.builds = 1 /\ cch.hits = 2 /\ cch.misses = 0

\* what reaching the continuation with value v takes, by the form of the call
Reaches(v) ==
  CASE ndb.form = "none" -> TRUE
    [] ndb.form = "pred" -> v # Bool(FALSE)
    [] OTHER -> ndb.term = FreshVar \/ ndb.term = v
\* C26: a non-deterministic built-in called with an ND cache: on a hit the
\* implementation is not invoked and the continuation is reached as for that
\* output on a miss (always without a declared result, unless the value is
\* false in predicate form, by unification with the output term otherwise);
\* on a miss the implementation is invoked and its output stored, and no
\* later identical call of the query invokes it again
C26_NDCache ==
  ndb.canUse =>
    /\ \A n \in 1..Len(ndb.log) :
         /\ ndb.log[n].cont = Reaches(ndb.log[n].v)
         /\ ndb.log[n].how = "hit" =>
              (n > 1 /\ ndb.log[n].invoked = ndb.log[n - 1].invoked + (IF ndb.log[n - 1].how = "miss" THEN 1 ELSE 0))
    /\ \A i, j \in 1..Len(ndb.log) :
         (i < j /\ ndb.log[i].how = "miss") => ndb.log[j].how = "hit"
\* the same with the later call made after the first call has returned
C26_Returned == (\A n \in 1..Len(ndb.rounds) : ndb.rounds[n] = 1) => C26_NDCache

\* the last call of Resolve
RLast == rsv.log[Len(rsv.log)]
\* the value a document holds at a path, MNil where it holds none
At(doc, path) ==
  IF path = <<>> THEN doc
  ELSE IF doc.k # "obj" \/ path[1] \notin DOMAIN doc.f THEN MNil
  ELSE IF Len(path) = 1 THEN doc.f[path[1]]
  ELSE IF doc.f[path[1]].k # "obj" \/ path[2] \notin DOMAIN doc.f[path[1]].f
  THEN MNil
  ELSE doc.f[path[1]].f[path[2]]
\* C27: Resolve returns UnknownValue and reads nothing when inlining is
\* disabled for the reference or the save set holds it; for the root of the
\* function arguments it returns the plugged argument of the position, and
\* UnknownValue when the position is invalid; for an input reference it
\* returns the value at the path, and no value and no error when the path is
\* missing or there is no input
C27_Resolve ==
  rsv.log # <<>> =>
    /\ RLast.off =>
         (RLast.err = Unknown /\ RLast.v = MNil /\ RLast.read = <<>>
          /\ ~RLast.asked)
    /\ (~RLast.off /\ RLast.ref.root = "args") =>
         IF RLast.ref.num /\ RLast.ref.path[1] \in 0..(Len(rsv.args) - 1)
         THEN /\ RLast.err = NoErr
              /\ RLast.v = (IF rsv.args[RLast.ref.path[1] + 1] = RVar
                            THEN MNum(rsv.bound)
                            ELSE rsv.args[RLast.ref.path[1] + 1])
         ELSE RLast.err = Unknown /\ RLast.v = MNil
    /\ (~RLast.off /\ RLast.ref.root = "input") =>
         /\ RLast.err = NoErr /\ RLast.read = <<>> /\ ~RLast.asked
         /\ RLast.v = At(rsv.input, RLast.ref.path)
C27_Witness ==
  /\ Len(rsv.log) = 1 /\ ~RLast.off /\ RLast.ref = RRef("args", <<1>>)
  /\ rsv.args = <<MNum(1), RVar>> /\ rsv.bound = MaxVal
  /\ RLast.v = MNum(MaxVal) /\ RLast.err = NoErr

\* the calls of Resolve on a data reference with scalar keys that is neither
\* disabled nor saved
DataCalls ==
  {n \in 1..Len(rsv.log) :
     rsv.log[n].ref.root = "data" /\ rsv.log[n].ref.scalar /\ ~rsv.log[n].off}
Shadowed(n) == \E t \in rsv.targets : HasPrefix(rsv.log[n].ref.path, t)
\* the overlay's value over the storage's: the overlay wins key by key
Overlaid(over, base) ==
  IF over = MNil THEN base
  ELSE IF base = MNil THEN over
  ELSE merge(over, base).v
\* C28: Resolve of a data reference returns the overlay's value alone, asking
\* neither the base cache nor storage, when a `with` target is a prefix of
\* the reference; otherwise it asks the base cache first and storage only on
\* a miss, after which the value read is in the base cache; storage is read
\* at most once for a reference with scalar keys, and every later resolve of
\* it is a hit that returns the same value, merged with the overlay, the
\* overlay winning
C28_Data ==
  /\ \A n \in DataCalls :
       LET e == rsv.log[n] IN
       IF Shadowed(n)
       THEN e.v = At(rsv.data, e.ref.path) /\ ~e.asked /\ e.read = <<>>
       ELSE /\ e.asked /\ e.err = NoErr
            /\ e.read = (IF e.hit THEN <<>> ELSE <<e.ref.path>>)
            /\ e.v = Overlaid(At(rsv.data, e.ref.path), At(rsv.store, e.ref.path))
  /\ \A i, j \in DataCalls :
       (i < j /\ ~Shadowed(i) /\ rsv.log[i].ref = rsv.log[j].ref) =>
         (rsv.log[j].hit /\ rsv.log[j].read = <<>> /\ rsv.log[j].v = rsv.log[i].v)
  /\ \A i, j \in 1..Len(rsv.reads) : rsv.reads[i] = rsv.reads[j] => i = j
\* the same for the references storage has a value for
C28_Stored ==
  (\A n \in DataCalls : At(rsv.store, rsv.log[n].ref.path) # MNil) => C28_Data

\* C29: under partial evaluation a reference to, or a call of, a rule set
\* with else chains whose expression involves an unknown evaluates no rule
\* body of the set, and once it is done the support set holds rules for the
\* set
OrderedUnknown == ord.partial /\ ord.pc # "idle" /\ ordered(ordIr) /\ unknownExpr(ord)
C29_Ordered ==
  OrderedUnknown =>
    /\ ord.bodies = <<>>
    /\ ord.pc \in {"saved", "done"} =>
         \E s \in ord.saveSupport : s.path = ord.name
\* a rule set with else chains that the guard of evalVirtual.eval or of
\* evalFunc.eval finds unknown has no body evaluated and no support rule: the
\* expression itself is on the save stack while the continuation runs, once
C29_Saved ==
  (/\ ord.partial /\ ord.pc # "idle" /\ ordered(ordIr)
   /\ IF ord.kind = "ref" THEN unknownRef(ord) ELSE unknownExpr(ord)) =>
    /\ ord.bodies = <<>> /\ ord.saveSupport = {}
    /\ ord.pc = "saved" => (ord.saveStack = <<savedExpr(ord)>> /\ ord.iters = 1)
    /\ ord.pc = "done" => (ord.saveStack = <<>> /\ ord.iters = 1)

\* C30: two cache keys that end in a unification scope are the same slot of
\* the virtual cache exactly when their locations are equal and their scopes
\* have one length and agree at every position (two variables agree, two
\* other terms agree when equal, a variable and another term do not); the
\* comparison gives the same answer in both orders, scopes that agree have
\* one hash, no stored scope is empty or ends in a variable, a read whose key
\* ends in a scope is a hit exactly when an earlier read put a key of the
\* same slot, and then unifies the term that read put; a[1][_][5] then
\* a[1][foo][5] is a miss and a hit, a[1][_][5] then a[1][_][6] two misses
ScopeKeyed ==
  {n \in 1..Len(vks.log) :
     vks.log[n].key # <<>> /\ vks.log[n].key[Len(vks.log[n].key)].k = "scope"}
KeyScope(n) == vks.log[n].key[Len(vks.log[n].key)]
Agree(s, t) ==
  /\ Len(s) = Len(t)
  /\ \A i \in 1..Len(s) :
       IF s[i].k = "var" THEN t[i].k = "var"
       ELSE t[i].k # "var" /\ s[i] = t[i]
ScopeRead(x, y, z) == <<SNum(1), x, y>> \o z
ReadsAre(r1, r2) ==
  Len(vks.log) = 2 /\ vks.log[1].ref = r1 /\ vks.log[2].ref = r2
C30_Scope ==
  /\ \A i, j \in ScopeKeyed :
       /\ sameSlot(vks.log[i].key, vks.log[j].key) <=>
            (/\ keyWithoutScope(vks.log[i].key) = keyWithoutScope(vks.log[j].key)
             /\ Agree(KeyScope(i).ref, KeyScope(j).ref))
       /\ (vcKeyScopeCompare(KeyScope(i), KeyScope(j)) = 0) <=>
            (vcKeyScopeCompare(KeyScope(j), KeyScope(i)) = 0)
       /\ Agree(KeyScope(i).ref, KeyScope(j).ref) =>
            vcKeyScopeHash(KeyScope(i).ref) = vcKeyScopeHash(KeyScope(j).ref)
  /\ \A n \in 1..Len(vks.cache) :
       LET ckey == vks.cache[n].key IN
       (ckey # <<>> /\ ckey[Len(ckey)].k = "scope") =>
         (ckey[Len(ckey)].ref # <<>> /\ vcKeyScopeReduce(ckey[Len(ckey)].ref) = ckey[Len(ckey)].ref)
  /\ \A j \in ScopeKeyed :
       /\ vks.log[j].hit <=>
            \E i \in 1..(j - 1) :
              vks.log[i].put /\ sameSlot(vks.log[i].key, vks.log[j].key)
       /\ vks.log[j].sols = scopeUnify(scopeLeaves(vks.log[j].ref), vks.log[j].ref)
  /\ \A tail \in {<<>>, <<SVar("_")>>} :
       /\ ReadsAre(ScopeRead(SVar("_"), SNum(5), tail), ScopeRead(SVar("foo"), SNum(5), <<>>)) =>
            (~vks.log[1].hit /\ vks.log[2].hit /\ vks.hits = 1 /\ vks.misses = 1)
       /\ ReadsAre(ScopeRead(SVar("_"), SNum(5), tail), ScopeRead(SVar("_"), SNum(6), <<>>)) =>
            (~vks.log[1].hit /\ ~vks.log[2].hit /\ vks.misses = 2
             /\ ~sameSlot(vks.cache[1].key, vks.cache[2].key))
\* a[1][_][5][_] was read and missed, then a[1][foo][5] is a hit on the key
\* a[1]<_,5>
C30_Witness ==
  /\ ReadsAre(ScopeRead(SVar("_"), SNum(5), <<SVar("_")>>), ScopeRead(SVar("foo"), SNum(5), <<>>))
  /\ ~vks.log[1].hit /\ vks.log[2].hit /\ 2 \in ScopeKeyed
  /\ vks.log[1].key = <<SNum(1), vcKeyScope(<<SVar("_"), SNum(5)>>)>>
  /\ vks.log[2].key = <<SNum(1), vcKeyScope(<<SVar("foo"), SNum(5)>>)>>

\* C31: outside partial evaluation, an evaluation of a complete rule set that
\* ends without error and without a value from any rule, else rule or
\* default has put the negative entry at the rule's reference; after that
\* put the reference has, in that cache scope, only hits of the negative
\* entry: no miss, no rule body, no other put, and the query's continuation
\* is not reached through it; a miss has no earlier put of its key in its
\* scope; and no evaluation both puts the negative entry and has a rule give
\* a value or ends with an error
Produced(g) == \E i \in Entries("put") : Log[i].by = g /\ Log[i].val # NoTerm
Negative(g) == \E i \in Entries("put") : Log[i].by = g /\ Log[i].val = NoTerm
C31_Negative ==
  NonPartial =>
    /\ \A x \in Entries("end") :
         /\ (Log[x].err = NoErr /\ ~Produced(Log[x].by)) => Negative(Log[x].by)
         /\ Log[x].err # NoErr => ~Negative(Log[x].by)
    /\ \A i \in Entries("put") :
         Log[i].val = NoTerm =>
           /\ ~Produced(Log[i].by)
           /\ \A j \in (i + 1)..Len(Log) :
                (Same(i, j) /\ Log[j].kind # "end") =>
                  (Log[j].kind = "hit" /\ Log[j].val = NoTerm)
    /\ \A j \in Entries("miss") :
         \A i \in Entries("put") : ~(i < j /\ Same(i, j))
    /\ (stack = <<>> /\ prog.query = <<Not(Ref("q")), Ref("q")>>) =>
         (results = 0 /\ hits = 1 /\ misses = 1
          /\ Cardinality(Entries("body")) = 1)
\* `not q; q` has been evaluated: q was evaluated once, undefined, and read
\* again from the negative entry
C31_Witness ==
  /\ NonPartial /\ stack = <<>> /\ prog.query = <<Not(Ref("q")), Ref("q")>>
  /\ results = 0 /\ hits = 1 /\ misses = 1
  /\ \E i \in Entries("put") : \E j \in Entries("hit") :
       i < j /\ Same(i, j) /\ Log[i].val = NoTerm /\ Log[j].val = NoTerm

\* the clauses of rule i evaluated before the n-th evaluation
Before(n, i) == {m \in 1..(n - 1) : els.tried[m].i = i}
\* the n-th evaluation is of an else clause, and follows the evaluation of
\* the clause declared just before it in the same rule
InOrder(n) ==
  /\ n > 1
  /\ els.tried[n - 1].i = els.tried[n].i
  /\ els.tried[n - 1].j = els.tried[n].j - 1
C32_Value ==
  \A n \in 1..Len(els.tried) :
    els.tried[n].j > 0 =>
      /\ InOrder(n)
      /\ \A m \in Before(n, els.tried[n].i) : els.tried[m].result = 0
\* a function's else clause is evaluated after the rule's own body succeeded
\* with an unknown head value
C32_Witness ==
  \E n \in 1..Len(els.tried) :
    /\ els.tried[n].j > 0
    /\ \E m \in Before(n, els.tried[n].i) : els.tried[m].solved

\* the entries of the log that evaluation g of a complete rule set wrote for
\* the clause at: the bodies it evaluated, the values it stored
BodiesAt(g, at) ==
  {i \in Entries("body") : Log[i].by = g /\ "at" \in DOMAIN Log[i] /\ Log[i].at = at}
PutsBy(g) == {i \in Entries("put") : Log[i].by = g /\ "at" \in DOMAIN Log[i]}
\* the rule set a log entry is about
RulesOf(i) == getRules(prog.a, prog.b, Log[i].key.ref, prog.earlyExit)
\* every rule and every else clause of the rule set was evaluated before the
\* n-th entry
AllTried(n) ==
  \A i \in 1..Len(RulesOf(n).Rules) : \A j \in 0..Len(RulesOf(n).Else[i]) :
    \E m \in BodiesAt(Log[n].by, <<i, j>>) : m < n
\* C33: when no partial evaluation is under way, the default rule of a
\* complete rule set is evaluated only after every rule and every else
\* clause of the set was evaluated and none gave a value, and it is
\* evaluated whenever an evaluation that ends without an error found no
\* value in them; its value is then the one value delivered to the
\* continuation and the value stored in the virtual cache, and no negative
\* entry is stored
C33_Default ==
  NonPartial =>
    /\ \A n \in Entries("body") :
         n \in BodiesAt(Log[n].by, <<0, 0>>) =>
           /\ RulesOf(n).Default # NoRule
           /\ AllTried(n)
           /\ \A m \in PutsBy(Log[n].by) : m > n
    /\ \A n \in Entries("end") :
         Log[n].err = NoErr =>
           /\ (/\ RulesOf(n).Default # NoRule
               /\ \A m \in PutsBy(Log[n].by) : Log[m].at = <<0, 0>>)
                 => BodiesAt(Log[n].by, <<0, 0>>) # {}
           /\ BodiesAt(Log[n].by, <<0, 0>>) # {} =>
                /\ \E m \in PutsBy(Log[n].by) :
                     /\ Log[m].at = <<0, 0>>
                     /\ Log[m].val = RulesOf(n).Default.head.v
                /\ \A m \in PutsBy(Log[n].by) :
                     Log[m].val = RulesOf(n).Default.head.v
                /\ Log[n].vals = {RulesOf(n).Default.head.v}
                /\ ~Negative(Log[n].by)
\* y is read twice: its rule and its else clause give no value, its default
\* rule is evaluated once and the second read, made by the continuation, is
\* a hit on the default value
C33_Witness ==
  /\ NonPartial
  /\ stack = <<>>
  /\ prog.query = <<Ref("y"), Ref("y")>>
  /\ prog.a # prog.b
  /\ results = 1
  /\ \E n \in Entries("end") :
       /\ Log[n].key.ref = "y"
       /\ Cardinality(BodiesAt(Log[n].by, <<0, 0>>)) = 1
       /\ Log[n].vals = {prog.a}
       /\ \E h \in Entries("hit") : Same(h, n) /\ Log[h].val = prog.a
\* u is read: its else clause gives a value and the default rule is not
\* evaluated
C33_Skipped ==
  /\ NonPartial
  /\ stack = <<>>
  /\ prog.query = <<Ref("u")>>
  /\ \E n \in Entries("end") :
       /\ Log[n].key.ref = "u"
       /\ BodiesAt(Log[n].by, <<0, 0>>) = {}
       /\ BodiesAt(Log[n].by, <<1, 1>>) # {}
       /\ Log[n].vals = {prog.b}

\* C34: every frame in evalPool and every resolver in resolverPool is fully
\* reset: it refers to no query (bindings, caches, input, data) and its
\* flags defined and findOne are off
C34_Reset ==
  /\ \A i \in 1..Len(pol.evalPool) : pol.evalPool[i] = ZeroEval
  /\ \A i \in 1..Len(pol.resolverPool) : pol.resolverPool[i] = ZeroResolver
\* what holds: the resolvers in the pool are reset, and a frame in use refers
\* to the query under way only, whatever the frame taken from the pool held
C34_Overwritten ==
  /\ \A i \in 1..Len(pol.resolverPool) : pol.resolverPool[i] = ZeroResolver
  /\ \A i \in 1..Len(pol.live) : pol.live[i].e.query = pol.query
\* a frame of an earlier query, its flag defined on, was taken from the pool
\* for the query under way
C34_Stale ==
  /\ pol.got.query # 0
  /\ pol.got.query < pol.query
  /\ pol.got.defined
  /\ Len(pol.live) > 1

\* C35: the query id factory hands out 0 first and consecutive integers
\* afterwards; the frames of one query have identifiers distinct from one
\* another, each greater than the identifier of every frame made before it,
\* and a frame made by closure or child has an identifier greater than its
\* parent's
C35_QueryIDs ==
  /\ \A n \in 1..Len(qid.made) : qid.made[n].id = n - 1
  /\ \A m, n \in 1..Len(qid.made) : m < n => qid.made[m].id < qid.made[n].id
  /\ \A n \in 2..Len(qid.made) : qid.made[n].parent < qid.made[n].id
  /\ \A n \in 1..Len(qid.live) : qid.live[n].id < qid.curr
\* the factory has handed out every identifier of the bound, the last one to
\* a frame whose parent is neither the query's frame nor the frame made just
\* before it
C35_Witness ==
  /\ Len(qid.made) = MaxIds
  /\ qid.made[MaxIds].id = MaxIds - 1
  /\ qid.made[MaxIds].parent \notin {0, MaxIds - 2}

\* the solutions of the expressions from the k-th on under bindings b, in
\* the order of the language, the k-th expression's variable taking the
\* indices from i on: a position that is a number, or a variable with a
\* value, selects one element or none; an unbound variable takes each index
\* of the array in increasing order
RECURSIVE BodSols(_, _, _)
BodSols(k, b, i) ==
  IF k > Len(bod.query) THEN <<b>>
  ELSE IF bodPlug(bod.query[k].t, b) # NoIdx
  THEN IF bodGet(bod.query[k].len, bodPlug(bod.query[k].t, b))
       THEN BodSols(k + 1, b, 0) ELSE <<>>
  ELSE IF i >= bod.query[k].len THEN <<>>
  ELSE BodSols(k + 1, [b EXCEPT ![bod.query[k].t.n] = i], 0)
       \o BodSols(k, b, i + 1)
\* the solutions of the whole body, no variable bound
BodAll == BodSols(1, bod.free, 0)
\* C36: the expressions of a body are evaluated left to right, expression
\* i + 1 only inside a solution of expression i; a reference with an unbound
\* variable at a position over an array of length n gives exactly n
\* solutions, the variable bound to 0..n-1 in increasing order, and each
\* binding is undone before the next is made; `[1, 2][x]` gives x = 0, then
\* x = 1, and nothing else
C36_LeftToRight ==
  /\ \A n \in 1..Len(bod.evals) :
       bod.evals[n].index > 1 =>
         /\ \E m \in 1..(n - 1) : bod.evals[m].index = bod.evals[n].index - 1
         /\ bodGet(bod.query[bod.evals[n].index - 1].len,
                   bodPlug(bod.query[bod.evals[n].index - 1].t,
                           bod.evals[n].bindings))
  /\ \A n \in 1..Len(bod.binds) :
       /\ bod.binds[n].was = NoIdx
       /\ \/ bod.binds[n].to = 0
          \/ \E m \in 1..(n - 1) :
               /\ bod.binds[m].v = bod.binds[n].v
               /\ bod.binds[m].to = bod.binds[n].to - 1
               /\ \A l \in (m + 1)..(n - 1) : bod.binds[l].v # bod.binds[n].v
  /\ bod.pc # "none" =>
       /\ Len(bod.sols) <= Len(BodAll)
       /\ bod.sols = SubSeq(BodAll, 1, Len(bod.sols))
  /\ (bod.pc = "done" /\ (bod.err = NoErr \/ IsDeferredEarlyExit(bod.err))) =>
       /\ bod.sols = BodAll
       /\ bod.bindings = bod.free
       /\ bod.index = 1
  /\ (bod.pc = "done" /\ bod.err = NoErr /\ Len(bod.query) = 1
        /\ bod.query[1].t.k = "var") =>
       /\ Len(bod.sols) = bod.query[1].len
       /\ \A i \in 1..Len(bod.sols) : bod.sols[i][bod.query[1].t.n] = i - 1
\* `[1, 2][x]` has been evaluated: two solutions, x = 0 and then x = 1
C36_Witness ==
  /\ bod.pc = "done"
  /\ bod.err = NoErr
  /\ bod.query = <<[len |-> 2, t |-> [k |-> "var", n |-> 1]]>>
  /\ Len(bod.sols) = 2
  /\ bod.sols[1][1] = 0
  /\ bod.sols[2][1] = 1
  /\ Len(bod.binds) = 2
\* two enumerations, one inside the other, have given all their solutions
C36_Nested ==
  /\ bod.pc = "done"
  /\ bod.err = NoErr
  /\ Len(bod.query) = 2
  /\ Len(bod.sols) = 4
  /\ Len(bod.binds) = 6

\* the frame evalNot or evalNotPartial has made by closure for the positive
\* form of its expression, at the moment its evaluation begins
Negated(n) ==
  /\ n = Len(stack)
  /\ n > 1
  /\ stack[n - 1].fn \in {"evalNot", "evalNotPartial"}
  /\ stack[n - 1].pc = "evaluated"
  /\ stack[n].fn = "evalExpr"
  /\ stack[n].pc = "start"
  /\ stack[n].e = stack[n - 1].child
  /\ frames[stack[n].e].index = 0
  /\ stack[n - 1].gsols = 0
\* C37: when evalNot or evalNotPartial begins to evaluate the closure frame
\* it made for the positive form, that frame's defined flag is off, whatever
\* the frame that made it has been through
C37_Fresh ==
  \A n \in 1..Len(stack) : Negated(n) => ~frames[stack[n].e].defined
\* a negation begins with the flag off (the case that holds where no outer
\* negation has found a solution)
C37_Begun ==
  \E n \in 1..Len(stack) : Negated(n) /\ ~frames[stack[n].e].defined

\* C38: every operation that pushes on the save stack or the save set, and
\* every PushQuery bracket, has removed exactly what it pushed when it
\* returns, with or without an error and whatever the number of solutions:
\* the save stack, its query levels and the save set are as before the
\* call; and while the continuation runs, the expressions of the save
\* operations under way are on the save stack
C38_Balanced ==
  /\ \A i \in 1..Len(sav.done) : sav.done[i].after = sav.done[i].before
  /\ sav.ops = <<>> => (sav.stack = <<<<>>>> /\ sav.set = <<>>)
  /\ \A i \in 1..Len(sav.seen) : sav.seen[i].query = sav.seen[i].saved
  /\ \A i \in 1..Len(sav.ops) :
       /\ Len(sav.stack) >= Len(sav.ops[i].before.stack)
       /\ Len(sav.set) >= Len(sav.ops[i].before.set) + sav.ops[i].pairs
\* a save operation inside a support rule's bracket has returned with an
\* error, and then the bracket, after the callback ran twice on a query of
\* the operation's two expressions
C38_Witness ==
  /\ sav.ops = <<>>
  /\ Len(sav.done) = 2
  /\ Len(sav.seen) = 2
  /\ sav.done[2].op = "evalFunc.partialEvalSupportRule"
  /\ sav.done[1].op = "saveInlinedNegatedExprs"
  /\ sav.done[1].err
  /\ \A i \in 1..2 : Len(sav.seen[i].query) = 2

\* C39: merge and mergeObjects never report a conflict: for every pair of
\* values ok is true, and none of the callers (Resolve,
\* resolveReadFromStorage, evalTree.extent) returns a merge-conflict error:
\* each returns the merged value.
C39_NoConflict ==
  /\ mrg.pc \in {"done", "returned"} => (mrg.ok /\ mrg.result # MNil)
  /\ mrg.pc = "returned" =>
       (mrg.err = NoErr /\ Merged(mrg.a0, mrg.b0, mrg.result))
\* evalTree.extent has merged two objects that hold different numbers under
\* key 1 and an object and a number under key 2: a's values are the result
C39_Witness ==
  /\ mrg.pc = "returned" /\ mrg.caller = "extent" /\ mrg.err = NoErr
  /\ mrg.a = MObj(1 :> MNum(1) @@ 2 :> MObj(1 :> MNum(1)))
  /\ mrg.b = MObj(1 :> MNum(MaxVal) @@ 2 :> MNum(1))
  /\ mrg.result = mrg.a

\* the calls of next on frame e among the first p activations that have
\* raised the index and not yet lowered it
Nexts(e, p) ==
  Cardinality({q \in 1..p : /\ stack[q].fn = "next" /\ stack[q].e = e
                            /\ stack[q].pc = "back"})
\* the calls of evalExpr on frame e below activation p
ExprCalls(e, p) ==
  Cardinality({q \in 1..(p - 1) : stack[q].fn = "evalExpr" /\ stack[q].e = e})
\* the functions that evaluate the expression e.query[e.index]
StepFns == {"evalStep", "evalWith", "evalNot", "evalNotPartial", "evalEvery",
            "evalBuiltin", "evalNotPartialSupport"}
\* what holds of the index: it is raised by a call of next and lowered when
\* the call returns, with or without an error, so it is what it was before
\* the call when eval, evalExpr and next have returned; the n-th evalExpr of
\* a frame runs at index n - 1, and a function that evaluates an expression
\* finds the index inside the query
C40_Restored ==
  /\ \A e \in 1..Len(frames) : frames[e].index = Nexts(e, Len(stack))
  /\ \A p \in 1..Len(stack) :
       /\ stack[p].fn = "evalExpr" =>
            Nexts(stack[p].e, p) = ExprCalls(stack[p].e, p)
       /\ stack[p].fn \in StepFns =>
            /\ Nexts(stack[p].e, p) < Len(frames[stack[p].e].query)
            /\ ExprCalls(stack[p].e, p) = Nexts(stack[p].e, p) + 1
  /\ (stack # <<>> /\ cur.fn \in StepFns) =>
       frames[cur.e].index = Nexts(cur.e, top)
\* the query's eval has returned an error on a frame of two expressions
\* after a solution was found: the index is back at the first expression
C40_Returned ==
  /\ stack # <<>> /\ cur.fn = "Run" /\ cur.pc = "done" /\ ret # NoErr
  /\ Len(frames[1].query) >= 2
  /\ frames[1].index = 0
  /\ results > 0
\* C40: after eval, evalExpr and next return the frame's expression index
\* is what it was before the call; expression i is evaluated at index i and
\* its continuation (the iterator evalExpr or evalWith made for it) runs at
\* index i + 1, so the index never passes the end of the query.
C40_Index ==
  /\ \A e \in 1..Len(frames) :
       /\ frames[e].index = Nexts(e, Len(stack))
       /\ frames[e].index <= Len(frames[e].query)
  /\ \A p \in 1..Len(stack) :
       (/\ stack[p].fn = "next" /\ stack[p].pc = "back"
        /\ stack[stack[p].env].fn \in {"evalExpr", "evalWith"}) =>
         Nexts(stack[p].e, p) = Nexts(stack[p].e, stack[p].env) + 1
====
